---- MODULE Spec2Model ----
(***************************************************************************)
(* The rslox bytecode virtual machine (src/src/vm.rs) and its mark-sweep   *)
(* collector (src/src/vm.rs, src/src/gc.rs), modelled as a state machine:  *)
(* one action per opcode handler of Vm::run.  A handler is modelled whole: *)
(* the allocation it makes, the collection that allocation triggers and    *)
(* the pushes that follow are one step.                                    *)
(*                                                                         *)
(* The machine runs chunks as the code generator of src/src/compiler.rs    *)
(* emits them.  A chunk's code is a sequence of bytes; an opcode byte is   *)
(* written by the name of its OpCode variant, an operand byte by its       *)
(* number.  ip counts bytes from 0 as in the source.                       *)
(*                                                                         *)
(* The compiler's resolution of names to upvalues (named_variable,         *)
(* resolve_upvalue, add_upvalue) is modelled apart, under CompilerSpec.    *)
(***************************************************************************)
EXTENDS Integers, Sequences, FiniteSets, TLC

VARIABLES
  prog,              \* which source text lib.rs interpret was given
  compiler,          \* the Compiler's scope state (compiler.rs 43-58)
  functions,         \* compiler.function and the functions nested in it
  debug_assertions,  \* cfg!(debug_assertions): the build profile
  status,            \* "new" | "run" | "ok" | the LoxError run() returned | "panic";
                     \* under HeapSpec the last call on the Heap and its result
  stack,             \* Vm.stack: slot -> Value; a slot outside the domain is None
  sp,                \* Vm.sp
  frames,            \* Vm.frames: sequence of CallFrame
  heap,              \* Vm.heap: handle -> LoxObj; DOMAIN heap is Heap.objects
  globals,           \* Vm.globals: name -> Value
  open_upvalues,     \* Vm.open_upvalues: sequence of (location, handle)
  gray_stack,        \* Vm.gray_stack
  bytes_allocated,   \* Vm.bytes_allocated
  next_gc,           \* Vm.next_gc
  output,            \* what Print has written to standard output
  fresh,             \* allocator: the lowest address Box::new has never returned
  gc                 \* record of the last collection cycle the last handler ran

vars == <<prog, compiler, functions, debug_assertions, status, stack, sp, frames, heap, globals,
          open_upvalues, gray_stack, bytes_allocated, next_gc, output, fresh,
          gc>>

(***************************************************************************)
(* Program constants                                                       *)
(***************************************************************************)
FRAMES_MAX == 64
STACK_MAX == FRAMES_MAX * 256
INITIAL_GC_THRESHOLD == 1024 * 1024
GC_HEAP_GROW_FACTOR == 2
DEV_GC_TESTING == TRUE
\* size_of::<LoxObj>(): a tag and a Box on a 64-bit target
lox_obj_size == 16
INIT_STRING == "init"

(***************************************************************************)
(* Bounds of the model                                                     *)
(***************************************************************************)
\* The recursion of the unbounded-recursion program is followed this deep.
MaxDepth == 66
\* ... and again over the last DeepWindow slots before the value stack is full.
DeepWindow == 0

(***************************************************************************)
(* Values (Value in vm.rs: Nil, Bool, Number, Obj(handle)); NoneV is the   *)
(* None of an Option<Value>.                                               *)
(***************************************************************************)
Nil == [t |-> "Nil"]
Bool(b) == [t |-> "Bool", b |-> b]
Number(n) == [t |-> "Number", n |-> n]
Obj(h) == [t |-> "Obj", h |-> h]
NoneV == [t |-> "None"]
IsObj(v) == v.t = "Obj"

\* A map (HashMap, or the stack's Option slots) with key k set / removed.
Put(f, k, v) == [x \in (DOMAIN f) \cup {k} |-> IF x = k THEN v ELSE f[x]]
Take(f, k) == [x \in (DOMAIN f) \ {k} |-> f[x]]
EmptyMap == [x \in {} |-> Nil]

\* The Obj handles among the values of a map, and of a sequence of values.
ObjsOfMap(f) == {f[k].h : k \in {x \in DOMAIN f : IsObj(f[x])}}
ObjsOfSeq(q) == {q[i].h : i \in {x \in 1..Len(q) : IsObj(q[x])}}

RECURSIVE SetToSeq(_)
SetToSeq(S) ==
  IF S = {} THEN <<>>
  ELSE LET x == CHOOSE y \in S : \A z \in S : y <= z
       IN <<x>> \o SetToSeq(S \ {x})

(***************************************************************************)
(* Compiled programs.  Each function is what Compiler::function leaves in  *)
(* the heap: arity, upvalue_count, its chunk's code and constants.         *)
(* Function 1 is the script.  A constant is a number, a string the         *)
(* compiler put in the heap with make_string, or the closure of a nested   *)
(* function.                                                               *)
(***************************************************************************)
CNum(n) == [k |-> "num", n |-> n]
CStr(s) == [k |-> "str", s |-> s]
CFn(f) == [k |-> "fn", f |-> f]
Fn(name, arity, nup, code, constants) ==
  [name |-> name, arity |-> arity, upvalue_count |-> nup,
   code |-> code, constants |-> constants]

\* fun outer(n) { var x = n; var y = 0;
\*                fun a() { x = 7; }  fun b() { return y + x; }
\*                a(); y = n; print b(); return b; }
\* var f = outer(1); print f(); var g = outer(2); print g();
ProgClosures ==
  << Fn("", 0, 0,
        <<"Closure", 1, "DefineGlobal", 0,
          "GetGlobal", 3, "Constant", 4, "Call", 1, "DefineGlobal", 2,
          "GetGlobal", 5, "Call", 0, "Print",
          "GetGlobal", 7, "Constant", 8, "Call", 1, "DefineGlobal", 6,
          "GetGlobal", 9, "Call", 0, "Print">>,
        <<CStr("outer"), CFn(2), CStr("f"), CStr("outer"), CNum(1), CStr("f"),
          CStr("g"), CStr("outer"), CNum(2), CStr("g")>>),
     Fn("outer", 1, 0,
        <<"GetLocal", 1, "Constant", 0,
          "Closure", 1, 1, 2,
          "Closure", 2, 1, 3, 1, 2,
          "GetLocal", 4, "Call", 0, "Pop",
          "GetLocal", 1, "SetLocal", 3, "Pop",
          "GetLocal", 5, "Call", 0, "Print",
          "GetLocal", 5, "Return",
          "Nil", "Return">>,
        <<CNum(0), CFn(3), CFn(4)>>),
     Fn("a", 0, 1,
        <<"Constant", 0, "SetUpvalue", 0, "Pop", "Nil", "Return">>,
        <<CNum(7)>>),
     Fn("b", 0, 2,
        <<"GetUpvalue", 0, "GetUpvalue", 1, "Add", "Return", "Nil", "Return">>,
        <<>>) >>

\* var f; { var x = "s"; fun g() { return x; } f = g; } print f() + "t" + "u";
ProgBlock ==
  << Fn("", 0, 0,
        <<"Nil", "DefineGlobal", 0,
          "Constant", 1,
          "Closure", 2, 1, 1,
          "GetLocal", 2, "SetGlobal", 3, "Pop",
          "Pop", "CloseUpvalue",
          "GetGlobal", 4, "Call", 0, "Constant", 5, "Add", "Constant", 6, "Add",
          "Print">>,
        <<CStr("f"), CStr("s"), CFn(2), CStr("f"), CStr("f"), CStr("t"),
          CStr("u")>>),
     Fn("g", 0, 1,
        <<"GetUpvalue", 0, "Return", "Nil", "Return">>,
        <<>>) >>

\* class A { init(v) { this.v = v; }  m() { return this.v; } }
\* var a = A("p"); print a.m(); var bm = A("q").m; print bm();
ProgClass ==
  << Fn("", 0, 0,
        <<"Class", 0, "DefineGlobal", 0, "GetGlobal", 1,
          "Closure", 3, "Method", 2,
          "Closure", 5, "Method", 4,
          "Pop",
          "GetGlobal", 7, "Constant", 8, "Call", 1, "DefineGlobal", 6,
          "GetGlobal", 9, "Invoke", 10, 0, "Print",
          "GetGlobal", 12, "Constant", 13, "Call", 1, "GetProperty", 14,
          "DefineGlobal", 11,
          "GetGlobal", 15, "Call", 0, "Print">>,
        <<CStr("A"), CStr("A"), CStr("init"), CFn(2), CStr("m"), CFn(3),
          CStr("a"), CStr("A"), CStr("p"), CStr("a"), CStr("m"),
          CStr("bm"), CStr("A"), CStr("q"), CStr("m"), CStr("bm")>>),
     Fn("init", 1, 0,
        <<"GetLocal", 0, "GetLocal", 1, "SetProperty", 0, "Pop",
          "GetLocal", 0, "Return">>,
        <<CStr("v")>>),
     Fn("m", 0, 0,
        <<"GetLocal", 0, "GetProperty", 0, "Return", "Nil", "Return">>,
        <<CStr("v")>>) >>

\* fun f(a, b) { fun g() { return b; } } f();
ProgArity ==
  << Fn("", 0, 0,
        <<"Closure", 1, "DefineGlobal", 0, "GetGlobal", 2, "Call", 0, "Pop">>,
        <<CStr("f"), CFn(2), CStr("f")>>),
     Fn("f", 2, 0,
        <<"Closure", 0, 1, 2, "Nil", "Return">>,
        <<CFn(3)>>),
     Fn("g", 0, 1,
        <<"GetUpvalue", 0, "Return", "Nil", "Return">>,
        <<>>) >>

\* fun r() { r(); } r();
ProgRecurse ==
  << Fn("", 0, 0,
        <<"Closure", 1, "DefineGlobal", 0, "GetGlobal", 2, "Call", 0, "Pop">>,
        <<CStr("r"), CFn(2), CStr("r")>>),
     Fn("r", 0, 0,
        <<"GetGlobal", 0, "Call", 0, "Pop", "Nil", "Return">>,
        <<CStr("r")>>) >>

\* class Doughnut { finish(number) { print number; } }
\* class Cruller < Doughnut { finish(number) { super.finish(number); } }
\* var cruller = Cruller(); cruller.finish(42);          (lib.rs test_sandbox)
ProgSuper ==
  << Fn("", 0, 0,
        <<"Class", 0, "DefineGlobal", 0, "GetGlobal", 1,
          "Closure", 3, "Method", 2,
          "Pop",
          "Class", 4, "DefineGlobal", 4, "GetGlobal", 5, "GetGlobal", 6,
          "Inherit", "GetGlobal", 7,
          "Closure", 9, 1, 1, "Method", 8,
          "Pop", "CloseUpvalue",
          "GetGlobal", 11, "Call", 0, "DefineGlobal", 10,
          "GetGlobal", 12, "Constant", 14, "Invoke", 13, 1, "Pop">>,
        <<CStr("Doughnut"), CStr("Doughnut"), CStr("finish"), CFn(2),
          CStr("Cruller"), CStr("Doughnut"), CStr("Cruller"), CStr("Cruller"),
          CStr("finish"), CFn(3),
          CStr("cruller"), CStr("Cruller"),
          CStr("cruller"), CStr("finish"), CNum(42)>>),
     Fn("finish", 1, 0,
        <<"GetLocal", 1, "Print", "Nil", "Return">>,
        <<>>),
     Fn("finish", 1, 1,
        <<"GetLocal", 0, "GetLocal", 1, "GetUpvalue", 0, "SuperInvoke", 0, 1,
          "Pop", "Nil", "Return">>,
        <<CStr("finish")>>) >>

\* class P { init(k) { this.k = k; return; }  m() { return this.k; } }
\* class Q < P { m() { return "q"; }  get() { return super.m; } }
\* var q = Q("p"); print q.get()(); print q.m(); class B {} B(1);
ProgInherit ==
  << Fn("", 0, 0,
        <<"Class", 0, "DefineGlobal", 0, "GetGlobal", 1,
          "Closure", 3, "Method", 2,
          "Closure", 5, "Method", 4,
          "Pop",
          "Class", 6, "DefineGlobal", 6, "GetGlobal", 7, "GetGlobal", 8,
          "Inherit", "GetGlobal", 9,
          "Closure", 11, "Method", 10,
          "Closure", 13, 1, 1, "Method", 12,
          "Pop", "CloseUpvalue",
          "GetGlobal", 15, "Constant", 16, "Call", 1, "DefineGlobal", 14,
          "GetGlobal", 17, "Invoke", 18, 0, "Call", 0, "Print",
          "GetGlobal", 19, "Invoke", 20, 0, "Print",
          "Class", 21, "DefineGlobal", 21, "GetGlobal", 22, "Pop",
          "GetGlobal", 23, "Constant", 24, "Call", 1, "Pop">>,
        <<CStr("P"), CStr("P"), CStr("init"), CFn(2), CStr("m"), CFn(3),
          CStr("Q"), CStr("P"), CStr("Q"), CStr("Q"),
          CStr("m"), CFn(4), CStr("get"), CFn(5),
          CStr("q"), CStr("Q"), CStr("p"),
          CStr("q"), CStr("get"), CStr("q"), CStr("m"),
          CStr("B"), CStr("B"), CStr("B"), CNum(1)>>),
     Fn("init", 1, 0,
        <<"GetLocal", 0, "GetLocal", 1, "SetProperty", 0, "Pop",
          "GetLocal", 0, "Return",
          "GetLocal", 0, "Return">>,
        <<CStr("k")>>),
     Fn("m", 0, 0,
        <<"GetLocal", 0, "GetProperty", 0, "Return", "Nil", "Return">>,
        <<CStr("k")>>),
     Fn("m", 0, 0,
        <<"Constant", 0, "Return", "Nil", "Return">>,
        <<CStr("q")>>),
     Fn("get", 0, 1,
        <<"GetLocal", 0, "GetUpvalue", 0, "GetSuper", 0, "Return",
          "Nil", "Return">>,
        <<CStr("m")>>) >>

\* class A { m() { return "method"; } }  fun f() { return "field"; }
\* var a = A(); a.m = f; print a.m();
ProgShadow ==
  << Fn("", 0, 0,
        <<"Class", 0, "DefineGlobal", 0, "GetGlobal", 1,
          "Closure", 3, "Method", 2,
          "Pop",
          "Closure", 5, "DefineGlobal", 4,
          "GetGlobal", 7, "Call", 0, "DefineGlobal", 6,
          "GetGlobal", 8, "GetGlobal", 10, "SetProperty", 9, "Pop",
          "GetGlobal", 11, "Invoke", 12, 0, "Print">>,
        <<CStr("A"), CStr("A"), CStr("m"), CFn(2), CStr("f"), CFn(3),
          CStr("a"), CStr("A"), CStr("a"), CStr("m"), CStr("f"),
          CStr("a"), CStr("m")>>),
     Fn("m", 0, 0,
        <<"Constant", 0, "Return", "Nil", "Return">>,
        <<CStr("method")>>),
     Fn("f", 0, 0,
        <<"Constant", 0, "Return", "Nil", "Return">>,
        <<CStr("field")>>) >>

\* var x = 1; var x = 2; x = 3; print x; y = 4;
ProgGlobals ==
  << Fn("", 0, 0,
        <<"Constant", 1, "DefineGlobal", 0,
          "Constant", 3, "DefineGlobal", 2,
          "Constant", 5, "SetGlobal", 4, "Pop",
          "GetGlobal", 6, "Print",
          "Constant", 8, "SetGlobal", 7, "Pop">>,
        <<CStr("x"), CNum(1), CStr("x"), CNum(2), CStr("x"), CNum(3),
          CStr("x"), CStr("y"), CNum(4)>>) >>

\* print y;
ProgUndefined ==
  << Fn("", 0, 0, <<"GetGlobal", 0, "Print">>, <<CStr("y")>>) >>

\* var g; { fun f() { return f; } g = f; } print "a" + "b"; print "c" + "d";
\* Once the block is left the closure f and its closed upvalue refer to each
\* other.
ProgCycle ==
  << Fn("", 0, 0,
        <<"Nil", "DefineGlobal", 0,
          "Closure", 1, 1, 1,
          "GetLocal", 1, "SetGlobal", 2, "Pop",
          "CloseUpvalue",
          "Constant", 3, "Constant", 4, "Add", "Print",
          "Constant", 5, "Constant", 6, "Add", "Print">>,
        <<CStr("g"), CFn(2), CStr("g"), CStr("a"), CStr("b"), CStr("c"),
          CStr("d")>>),
     Fn("f", 0, 1,
        <<"GetUpvalue", 0, "Return", "Nil", "Return">>,
        <<>>) >>

\* print <a> == <b>;  for literals a and b: nil, true, false, a number or a
\* string (Compiler::literal, number, string and binary).
Literals ==
  <<[k |-> "nil"], [k |-> "true"], [k |-> "false"],
    CNum(1), CNum(2), CStr("a"), CStr("b")>>
ProgEqual(a, b) ==
  LET Constants(l) == IF l.k \in {"num", "str"} THEN <<l>> ELSE <<>>
      Code(l, idx) == CASE l.k = "nil" -> <<"Nil">>
                        [] l.k = "true" -> <<"True">>
                        [] l.k = "false" -> <<"False">>
                        [] OTHER -> <<"Constant", idx>>
  IN << Fn("", 0, 0,
           Code(a, 0) \o Code(b, Len(Constants(a))) \o <<"Equal", "Print">>,
           Constants(a) \o Constants(b)) >>
\* The program of literals number i and j is named EqualNames[i][j].
EqualNames ==
  << <<"equal11", "equal12", "equal13", "equal14", "equal15", "equal16", "equal17">>,
    <<"equal21", "equal22", "equal23", "equal24", "equal25", "equal26", "equal27">>,
    <<"equal31", "equal32", "equal33", "equal34", "equal35", "equal36", "equal37">>,
    <<"equal41", "equal42", "equal43", "equal44", "equal45", "equal46", "equal47">>,
    <<"equal51", "equal52", "equal53", "equal54", "equal55", "equal56", "equal57">>,
    <<"equal61", "equal62", "equal63", "equal64", "equal65", "equal66", "equal67">>,
    <<"equal71", "equal72", "equal73", "equal74", "equal75", "equal76", "equal77">>>>

Programs ==
  [closures |-> ProgClosures, block |-> ProgBlock, class |-> ProgClass,
   arity |-> ProgArity, recurse |-> ProgRecurse, super |-> ProgSuper,
   inherit |-> ProgInherit, shadow |-> ProgShadow, globals |-> ProgGlobals,
   undefined |-> ProgUndefined, cycle |-> ProgCycle]

ProgramNames ==
  DOMAIN Programs \cup {EqualNames[i][j] : i, j \in 1..Len(Literals)}

\* What Compiler::compile leaves in compiler.function for the source text.
compile(name) ==
  IF name \in DOMAIN Programs THEN Programs[name]
  ELSE LET q == CHOOSE p \in (1..Len(Literals)) \X (1..Len(Literals)) :
                  EqualNames[p[1]][p[2]] = name
       IN ProgEqual(Literals[q[1]], Literals[q[2]])

Fns == functions

(***************************************************************************)
(* The compiler's resolution of a name to an upvalue (compiler.rs 683-810). *)
(* locals and upvalues belong to the function being compiled; locals_stack  *)
(* and upvalues_stack hold those of the enclosing functions, the script's   *)
(* first (with_function_ctx pushes both on entering a function).  Positions *)
(* and slots count from 0 as in the source.                                 *)
(***************************************************************************)
U8_MAX == 255
\* The nesting of functions and the locals per function that are tried.
MaxNest == 3
MaxLocals == 2
Names == {"a", "b"}

Local(name, depth) == [name |-> name, depth |-> depth, is_captured |-> FALSE]
Upvalue(is_local, index) == [is_local |-> is_local, index |-> index]

\* A compiler that starts out inside a class.
CompilerNew_InClass ==
  [scanner |-> <<>>,
   function |-> [arity |-> 0, code |-> <<>>, constants |-> <<>>, name |-> <<>>],
   fun_type |-> "Script",
   locals |-> <<Local("", 0)>>, scope_depth |-> 0, heap |-> <<>>,
   upvalues |-> <<>>, classes |-> <<[has_superclass |-> FALSE]>>,
   locals_stack |-> <<>>, upvalues_stack |-> <<>>,
   calls |-> <<>>, log |-> <<>>, jumps |-> <<>>, marks |-> <<>>,
   resolved |-> [kind |-> "none", name |-> "", index |-> 0],
   ret |-> 0, err |-> ""]

\* Compiler::new: slot 0 of the script is reserved
\* calls and log are the record of what the compiler did, for the properties;
\* jumps is the list of the jumps it has patched and the loops it has emitted
\* (where the operand is, where the jump is meant to land), marks the list of
\* the places where the code of a statement or declaration ends, with the
\* number of locals there and how many functions enclose the one compiled.
CompilerNew ==
  [scanner |-> <<>>,
   function |-> [arity |-> 0, code |-> <<>>, constants |-> <<>>, name |-> <<>>],
   fun_type |-> "Script",
   locals |-> <<Local("", 0)>>, scope_depth |-> 0, heap |-> <<>>,
   upvalues |-> <<>>, classes |-> <<>>,
   locals_stack |-> <<>>, upvalues_stack |-> <<>>,
   calls |-> <<>>, log |-> <<>>, jumps |-> <<>>, marks |-> <<>>,
   resolved |-> [kind |-> "none", name |-> "", index |-> 0],
   ret |-> 0, err |-> ""]

\* The result is [some, idx, err]: the last local of that name.
resolve_local_with(name, locals) ==
  LET hits == {i \in 1..Len(locals) : locals[i].name = name}
      last == CHOOSE i \in hits : \A k \in hits : k <= i
  IN IF hits = {} THEN [some |-> FALSE, idx |-> 0, err |-> ""]
     ELSE IF locals[last].depth = -1
          THEN [some |-> FALSE, idx |-> 0, err |-> "CompileError"]
          ELSE [some |-> TRUE, idx |-> last - 1, err |-> ""]

\* upvalues_kind is [kind |-> "Current"] or [kind |-> "Past", i |-> i].  Each
\* call is entered in calls: the list before and after, and what was returned.
add_upvalue(c, upvalues_kind, index, is_local) ==
  LET upvalues == IF upvalues_kind.kind = "Current" THEN c.upvalues
                  ELSE c.upvalues_stack[upvalues_kind.i + 1]
      call == [before |-> upvalues, after |-> upvalues,
               is_local |-> is_local, index |-> index, ret |-> 0, err |-> ""]
      pushed == Append(upvalues, Upvalue(is_local, index))
  IN IF \E k \in 1..Len(upvalues) : upvalues[k] = Upvalue(is_local, index)
     THEN [c EXCEPT !.ret = index,
                    !.calls = Append(@, [call EXCEPT !.ret = index])]
     ELSE IF Len(upvalues) >= U8_MAX
     THEN [c EXCEPT !.err = "CompileError",
                    !.calls = Append(@, [call EXCEPT !.err = "CompileError"])]
     ELSE LET d == IF upvalues_kind.kind = "Current"
                   THEN [c EXCEPT !.upvalues = pushed]
                   ELSE [c EXCEPT !.upvalues_stack[upvalues_kind.i + 1] = pushed]
          IN [d EXCEPT !.ret = Len(pushed) - 1,
                       !.calls = Append(@, [call EXCEPT !.after = pushed,
                                                        !.ret = Len(pushed) - 1])]

\* resolve_upvalue's inner loop, while i < self.locals_stack.len() - 1
RECURSIVE ResolveUnwind(_, _, _, _)
ResolveUnwind(c, name, i, index) ==
  IF i < Len(c.locals_stack) - 1
  THEN LET a == add_upvalue(c, [kind |-> "Past", i |-> i], index, FALSE)
       IN IF a.err # "" THEN a ELSE ResolveUnwind(a, name, i + 1, a.ret)
  ELSE [c EXCEPT !.resolved = [kind |-> "upvalue", name |-> name,
                               index |-> index]]

\* resolve_upvalue's outer loop, entered with locals_stack[i] to search
RECURSIVE ResolveLoop(_, _, _, _)
ResolveLoop(c, name, i, upvalues_kind) ==
  LET found == resolve_local_with(name, c.locals_stack[i + 1])
  IN IF found.err # "" THEN [c EXCEPT !.err = found.err]
     ELSE IF found.some
     THEN LET a == add_upvalue(c, upvalues_kind, found.idx, TRUE)
              b == [a EXCEPT !.locals_stack[i + 1][found.idx + 1].is_captured = TRUE]
          IN IF a.err # "" THEN a ELSE ResolveUnwind(b, name, i, a.ret)
     ELSE IF i = 0
     THEN [c EXCEPT !.resolved = [kind |-> "global", name |-> name, index |-> 0]]
     ELSE ResolveLoop(c, name, i - 1, [kind |-> "Past", i |-> i])

resolve_upvalue(c, name) ==
  IF c.locals_stack = <<>>
  THEN [c EXCEPT !.resolved = [kind |-> "global", name |-> name, index |-> 0]]
  ELSE ResolveLoop(c, name, Len(c.locals_stack) - 1, [kind |-> "Current"])

\* named_variable up to the choice of the opcode
\* let x = ...; F(x)
With(x, F(_)) == F(x)

named_variable(c, name) ==
  With(resolve_local_with(name, c.locals), LAMBDA found :
    With(IF found.err # "" THEN [c EXCEPT !.err = found.err]
         ELSE IF found.some
         THEN [c EXCEPT !.resolved = [kind |-> "local", name |-> name,
                                      index |-> found.idx]]
         ELSE resolve_upvalue(c, name),
         LAMBDA r : [r EXCEPT !.log =
                       Append(@, [op |-> "named_variable", name |-> name,
                                  locals |-> c.locals,
                                  resolved |-> r.resolved, err |-> r.err])]))

\* The compiler inside up to MaxNest nested functions, each with slot 0 and
\* up to MaxLocals declared locals, before it has resolved any name.
LocalLists ==
  {<<Local("", 0)>> \o [i \in 1..Len(q) |-> Local(q[i], 1)] :
     q \in UNION {[1..n -> Names] : n \in 0..MaxLocals}}
NestedCompilers ==
  {[CompilerNew EXCEPT !.locals_stack = ls,
                       !.upvalues_stack = [i \in 1..Len(ls) |-> <<>>]] :
     ls \in UNION {[1..n -> LocalLists] : n \in 1..MaxNest}}
\* The compiler in a function nested in a method of U8_MAX locals beside
\* this, all of them but the last captured by the function.
FullCompiler ==
  [CompilerNew EXCEPT
     !.locals_stack =
        << <<Local("", 0)>>,
           [i \in 1..(U8_MAX + 1) |->
              IF i = 1 THEN Local("this", 0)
              ELSE [name |-> "v" \o ToString(i - 1), depth |-> 1,
                    is_captured |-> i - 1 < U8_MAX]] >>,
     !.upvalues_stack = << <<>>, <<>> >>,
     !.upvalues = [k \in 1..(U8_MAX - 1) |-> Upvalue(TRUE, k)]]

(***************************************************************************)
(* The heap the compiler hands over (lib.rs interpret: Vm::new(compiler    *)
(* .heap)).  Handles are addresses.  The compiler's heap.insert calls put  *)
(* function f's name string at NameAddr(f) and its constant number i, when *)
(* it is a string or a closure, at ConstAddr(f, i).                        *)
(***************************************************************************)
\* Room per function in the address layout (more than any chunk's constants).
Stride == 28
NameAddr(f) == f * Stride
ConstAddr(f, i) == f * Stride + 1 + i
FirstFree == (Len(Fns) + 1) * Stride

ObjString(value) == [kind |-> "Str", value |-> value, is_marked |-> FALSE]
ObjClosure(f, name) ==
  [kind |-> "Closure", fn |-> f, arity |-> Fns[f].arity, name |-> name,
   upvalues |-> <<>>, upvalue_count |-> Fns[f].upvalue_count,
   is_marked |-> FALSE]
ObjUpvalue(location) ==
  [kind |-> "Upvalue", location |-> location, value |-> NoneV,
   is_marked |-> FALSE]
ObjClass(name) ==
  [kind |-> "Class", name |-> name, methods |-> EmptyMap, is_marked |-> FALSE]
\* An instance that does not record the class it was made from.
ObjInstance_without_class(class) ==
  [kind |-> "Instance", class |-> 0, fields |-> EmptyMap, is_marked |-> FALSE]
ObjInstance(class) ==
  [kind |-> "Instance", class |-> class, fields |-> EmptyMap,
   is_marked |-> FALSE]
ObjBoundMethod(receiver, method) ==
  [kind |-> "BoundMethod", receiver |-> receiver, method |-> method,
   is_marked |-> FALSE]

CompiledAddrs ==
  {NameAddr(f) : f \in 2..Len(Fns)} \cup
  UNION {{ConstAddr(f, i - 1) :
            i \in {x \in 1..Len(Fns[f].constants) :
                     Fns[f].constants[x].k # "num"}} : f \in 1..Len(Fns)}

CompiledObj(a) ==
  LET f == a \div Stride
      r == a % Stride
  IN IF r = 0 THEN ObjString(Fns[f].name)
     ELSE LET c == Fns[f].constants[r]
          IN IF c.k = "str" THEN ObjString(c.s)
             ELSE ObjClosure(c.f, <<NameAddr(c.f)>>)

CompiledHeap == [a \in CompiledAddrs |-> CompiledObj(a)]

\* chunk.constants[idx] of function f
ConstValue(f, idx) ==
  LET c == Fns[f].constants[idx + 1]
  IN IF c.k = "num" THEN Number(c.n) ELSE Obj(ConstAddr(f, idx))
ConstValues(f) == [i \in 1..Len(Fns[f].constants) |-> ConstValue(f, i - 1)]

(***************************************************************************)
(* The machine as one record, so that a handler is a function on states.   *)
(* err is the Err a handler returned ("" for Ok; "panic" for a panic), ret *)
(* the value the last helper returned, held the handles the running        *)
(* handler keeps in its own local variables across an allocation.          *)
(***************************************************************************)
\* gc is the log of the collection cycles the handler ran, in order.
NoGc == <<>>
VM ==
  [stack |-> stack, sp |-> sp, frames |-> frames, heap |-> heap,
   globals |-> globals, open_upvalues |-> open_upvalues,
   gray_stack |-> gray_stack, bytes_allocated |-> bytes_allocated,
   next_gc |-> next_gc, output |-> output, fresh |-> fresh, gc |-> NoGc,
   err |-> "", ret |-> Nil, held |-> {}, pushed |-> <<>>]

Fail(s, e) == IF s.err = "" THEN [s EXCEPT !.err = e] ELSE s
\* The ? operator: go on with F only after Ok.
Then(s, F(_)) == IF s.err = "" THEN F(s) ELSE s
\* The same for a helper that allocates, whose result is a set of states: one
\* for each address the allocator may return.
ThenS(s, F(_)) == IF s.err = "" THEN F(s) ELSE {s}
Each(S, F(_)) == UNION {ThenS(s, F) : s \in S}
\* .unwrap() on a Result
Unwrap(s) == IF s.err = "" THEN s ELSE [s EXCEPT !.err = "panic"]

Top(q) == q[Len(q)]
Front(q) == SubSeq(q, 1, Len(q) - 1)
HandlesOf(q) == LET o == SelectSeq(q, IsObj) IN [i \in 1..Len(o) |-> o[i].h]
\* usize arithmetic wraps modulo 2^64 where the build does not check it.  A
\* usize within 2^31 of a multiple of 2^64 is written as the integer nearest to
\* 0 that is congruent to it: a negative n stands for 2^64 + n.  Sums,
\* differences and products are then the integer ones; the order is not.
UGt(a, b) == (a < 0 /\ b >= 0) \/ ((a < 0) = (b < 0) /\ a > b)
RangeOf(q) == {q[i] : i \in 1..Len(q)}

(***************************************************************************)
(* Stack primitives (vm.rs 773-806)                                        *)
(***************************************************************************)
\* A push that does not look at the capacity.
push_unchecked(s, value) ==
  [s EXCEPT !.stack = Put(@, s.sp, value), !.sp = @ + 1]

push(s, value) ==
  IF s.sp = STACK_MAX THEN Fail(s, "StackOverflow")
  ELSE [s EXCEPT !.stack = Put(@, s.sp, value), !.sp = @ + 1]

\* A pop that empties the slot and leaves sp where it was.
pop_leaving_sp(s) ==
  IF s.sp = 0 THEN Fail(s, "StackUnderflow")
  ELSE IF (s.sp - 1) \in DOMAIN s.stack
       THEN [s EXCEPT !.stack = Take(@, s.sp - 1), !.ret = s.stack[s.sp - 1]]
       ELSE Fail(s, "CorruptedStack")

pop(s) ==
  IF s.sp = 0 THEN Fail(s, "StackUnderflow")
  ELSE IF (s.sp - 1) \in DOMAIN s.stack
       THEN [s EXCEPT !.sp = @ - 1, !.stack = Take(@, s.sp - 1),
                      !.ret = s.stack[s.sp - 1]]
       ELSE Fail([s EXCEPT !.sp = @ - 1], "CorruptedStack")

peek(s) ==
  IF s.sp = 0 THEN Fail(s, "panic")
  ELSE IF (s.sp - 1) \in DOMAIN s.stack
       THEN [s EXCEPT !.ret = s.stack[s.sp - 1]]
       ELSE Fail(s, "CorruptedStack")

get_obj(s, handle) ==
  IF handle \in DOMAIN s.heap THEN [s EXCEPT !.ret = s.heap[handle]]
  ELSE Fail(s, "InvalidHandle")

get_handle(s, value) ==
  IF IsObj(value) THEN [s EXCEPT !.ret = value.h] ELSE Fail(s, "InvalidObject")

(***************************************************************************)
(* Frames and fetching (vm.rs 720-771, 987-995)                            *)
(***************************************************************************)
current_frame(s) == Top(s.frames)

\* The function whose chunk the current frame runs; 0 when chunk() is Err.
chunk(s) ==
  LET h == current_frame(s).closure
  IN IF h \in DOMAIN s.heap /\ s.heap[h].kind = "Closure" THEN s.heap[h].fn
     ELSE 0

current_closure(s) ==
  LET h == current_frame(s).closure
  IN IF h \notin DOMAIN s.heap THEN Fail(s, "InvalidHandle")
     ELSE IF s.heap[h].kind = "Closure" THEN [s EXCEPT !.ret = s.heap[h]]
     ELSE Fail(s, "RuntimeError")

\* fetch: the byte at ip, and ip + 1
fetch(s) ==
  LET ip == current_frame(s).ip
      t == [s EXCEPT !.frames[Len(s.frames)].ip = ip + 1]
      f == chunk(s)
  IN IF f = 0 THEN Fail(t, "panic")
     ELSE IF ip >= Len(Fns[f].code) THEN Fail(t, "panic")
     ELSE [t EXCEPT !.ret = Fns[f].code[ip + 1]]

fetch_const(s) ==
  Then(fetch(s), LAMBDA t :
    IF t.ret >= Len(Fns[chunk(t)].constants) THEN Fail(t, "panic")
    ELSE [t EXCEPT !.ret = ConstValue(chunk(t), t.ret)])

fetch_str_const(s) ==
  Then(fetch_const(s), LAMBDA t :
    IF ~IsObj(t.ret) THEN Fail(t, "UnexpectedValue")
    ELSE Then(get_obj(t, t.ret.h), LAMBDA u :
           IF u.ret.kind = "Str" THEN [u EXCEPT !.ret = u.ret.value]
           ELSE Fail(u, "UnexpectedValue")))

(***************************************************************************)
(* The object graph of the heap, computed independently of the collector:  *)
(* the handles each object holds, the roots, and what the roots reach.     *)
(***************************************************************************)
Refs(o) ==
  CASE o.kind = "Str" -> {}
    [] o.kind = "Closure" ->
         RangeOf(o.name) \cup ObjsOfSeq(ConstValues(o.fn))
           \cup RangeOf(o.upvalues)
    [] o.kind = "Upvalue" -> IF IsObj(o.value) THEN {o.value.h} ELSE {}
    [] o.kind = "Class" -> ObjsOfMap(o.methods)
    [] o.kind = "Instance" -> {o.class} \cup ObjsOfMap(o.fields)
    [] o.kind = "BoundMethod" ->
         {o.method} \cup (IF IsObj(o.receiver) THEN {o.receiver.h} ELSE {})

LiveStack(s) == [i \in {j \in DOMAIN s.stack : j < s.sp} |-> s.stack[i]]

Roots(s) ==
  ObjsOfMap(LiveStack(s)) \cup {s.frames[i].closure : i \in 1..Len(s.frames)}
    \cup {s.open_upvalues[i].handle : i \in 1..Len(s.open_upvalues)}
    \cup ObjsOfMap(s.globals)

RECURSIVE Closure_(_, _)
Closure_(hp, seen) ==
  LET more == UNION {Refs(hp[h]) : h \in seen \cap DOMAIN hp} \ seen
  IN IF more = {} THEN seen ELSE Closure_(hp, seen \cup more)

Reachable(s) == Closure_(s.heap, Roots(s))

\* Every handle some part of the machine still holds, live or not.
Referenced(s) ==
  ObjsOfMap(s.stack) \cup Roots(s) \cup RangeOf(s.gray_stack) \cup s.held
    \cup UNION {Refs(s.heap[h]) : h \in DOMAIN s.heap}

(***************************************************************************)
(* Marking (gc.rs 137-162; mark_table is imported by vm.rs from gc.rs but  *)
(* is not defined there)                                                   *)
(***************************************************************************)
MarkedKinds == {"Closure", "Str", "Upvalue"}

mark(s, handle) ==
  IF ~s.heap[handle].is_marked
  THEN [s EXCEPT !.heap[handle].is_marked = TRUE,
                 !.gray_stack = Append(@, handle),
                 !.pushed = Append(@, handle)]
  ELSE s

mark_object(s, handle) ==
  IF handle \notin DOMAIN s.heap THEN Fail(s, "gc mark")
  ELSE IF s.heap[handle].kind \in MarkedKinds THEN mark(s, handle)
  ELSE s

RECURSIVE MarkAll(_, _)
MarkAll(s, hs) ==
  IF hs = <<>> \/ s.err # "" THEN s
  ELSE MarkAll(mark_object(s, Head(hs)), Tail(hs))

mark_table(s, table) == MarkAll(s, SetToSeq(ObjsOfMap(table)))

(***************************************************************************)
(* The collector (vm.rs 847-985)                                           *)
(***************************************************************************)
\* The stack loop stops at the first empty slot below sp.
StackRoots(s) ==
  LET holes == {i \in 0..(s.sp - 1) : i \notin DOMAIN s.stack}
      lim == IF holes = {} THEN s.sp
             ELSE CHOOSE i \in holes : \A j \in holes : i <= j
  IN HandlesOf([i \in 1..lim |-> s.stack[i - 1]])

mark_roots(s) ==
  LET a == MarkAll(s, StackRoots(s))
      b == MarkAll(a, [i \in 1..Len(s.frames) |-> s.frames[i].closure])
      c == MarkAll(b, [i \in 1..Len(s.open_upvalues) |->
                         s.open_upvalues[i].handle])
  IN Then(c, LAMBDA t : mark_table(t, t.globals))

blacken_object(s, handle) ==
  IF handle \notin DOMAIN s.heap THEN Fail(s, "InvalidHandle")
  ELSE LET o == s.heap[handle] IN
    CASE o.kind = "Str" -> s
      [] o.kind = "Closure" ->
           MarkAll(s, o.name \o HandlesOf(ConstValues(o.fn)) \o o.upvalues)
      [] o.kind = "Upvalue" ->
           IF o.value.t = "None" THEN s
           ELSE IF IsObj(o.value) THEN mark_object(s, o.value.h)
           ELSE Fail(s, "InvalidUpvalue")
      [] o.kind = "Class" -> mark_table(s, o.methods)
      [] o.kind = "Instance" ->
           Then(mark_object(s, o.class), LAMBDA t : mark_table(t, o.fields))
      [] o.kind = "BoundMethod" ->
           Then(mark_object(s, o.method), LAMBDA t :
             IF IsObj(o.receiver) THEN mark_object(t, o.receiver.h) ELSE t)

RECURSIVE trace_references(_)
trace_references(s) ==
  IF s.err # "" \/ s.gray_stack = <<>> THEN s
  ELSE trace_references(
         blacken_object([s EXCEPT !.gray_stack = Front(@)], Top(s.gray_stack)))

\* A sweep that keeps the marked objects without clearing their flag.
sweep_obj_keeps_mark(obj) == [keep |-> obj.is_marked, obj |-> obj]

\* A sweep that empties the strings it keeps.
sweep_obj_blanking(obj) ==
  [keep |-> obj.is_marked,
   obj |-> IF obj.kind = "Str" THEN [obj EXCEPT !.is_marked = FALSE, !.value = ""]
           ELSE [obj EXCEPT !.is_marked = FALSE]]

\* sweep_obj!: whether the object is kept, and the object as it is kept
sweep_obj(obj) == [keep |-> obj.is_marked, obj |-> [obj EXCEPT !.is_marked = FALSE]]

sweep(s) ==
  LET kept == {h \in DOMAIN s.heap : sweep_obj(s.heap[h]).keep}
      bytes_freed == lox_obj_size * Cardinality(DOMAIN s.heap \ kept)
  IN [s EXCEPT !.heap = [h \in kept |-> sweep_obj(s.heap[h]).obj],
               !.bytes_allocated =
                  IF ~(DEV_GC_TESTING /\ debug_assertions)
                  THEN @ - bytes_freed ELSE @]

\* What the running program can reach of the machine: kept in the log of a
\* cycle as it was before (was) and as the cycle left it (now).
Seen(s) ==
  [stack |-> s.stack, sp |-> s.sp, frames |-> s.frames, globals |-> s.globals,
   open_upvalues |-> s.open_upvalues, heap |-> s.heap]

collect_garbage(s) ==
  LET log == [done |-> FALSE, why |-> "", pre |-> DOMAIN s.heap,
              reach |-> Reachable(s) \cap DOMAIN s.heap,
              post |-> {}, marked |-> {}, frames |-> s.frames, sp |-> s.sp,
              gray |-> s.gray_stack, pushed |-> <<>>, left |-> <<>>,
              was |-> Seen(s), now |-> Seen(s)]
      m == Then(mark_roots([s EXCEPT !.pushed = <<>>]),
                LAMBDA t : trace_references(t))
  IN IF m.err # ""
     THEN [m EXCEPT !.gc = Append(@, [log EXCEPT !.why = m.err,
                                                 !.now = Seen(m),
                                                 !.pushed = m.pushed,
                                                 !.left = m.gray_stack])]
     ELSE LET w == sweep(m)
          IN [w EXCEPT !.next_gc = w.bytes_allocated * GC_HEAP_GROW_FACTOR,
                       !.gc = Append(@, [log EXCEPT !.done = TRUE,
                                 !.now = Seen(w),
                                 !.pushed = m.pushed,
                                 !.left = m.gray_stack,
                                 !.post = DOMAIN w.heap,
                                 !.marked = {h \in DOMAIN w.heap : w.heap[h].is_marked}])]

update_bytes_allocated(s) ==
  LET t == [s EXCEPT !.bytes_allocated = @ + lox_obj_size]
  IN IF UGt(t.bytes_allocated, t.next_gc) THEN Unwrap(collect_garbage(t)) ELSE t

\* Heap::insert: Box::new returns an address that holds no live object: one
\* never used before, or one a swept object had that something still refers to.
insert(s, obj) ==
  LET reuse == Referenced(s) \ DOMAIN s.heap
  IN {[s EXCEPT !.heap = Put(@, s.fresh, obj), !.fresh = @ + 1, !.ret = s.fresh]}
       \cup {[s EXCEPT !.heap = Put(@, a, obj), !.ret = a] : a \in reuse}

alloc(s, obj) ==
  LET t == IF DEV_GC_TESTING /\ debug_assertions
           THEN Unwrap(collect_garbage(s)) ELSE update_bytes_allocated(s)
  IN ThenS(t, LAMBDA u : insert(u, obj))

alloc_value(s, obj) ==
  {IF t.err = "" THEN [t EXCEPT !.ret = Obj(t.ret)] ELSE t : t \in alloc(s, obj)}

(***************************************************************************)
(* Indexing self.stack: out of bounds panics, a None slot is the Err e.    *)
(***************************************************************************)
StackAt(s, i, e) ==
  IF i < 0 \/ i >= STACK_MAX THEN Fail(s, "panic")
  ELSE IF i \in DOMAIN s.stack THEN [s EXCEPT !.ret = s.stack[i]]
  ELSE Fail(s, e)

StackSet(s, i, value) ==
  IF i < 0 \/ i >= STACK_MAX THEN Fail(s, "panic")
  ELSE [s EXCEPT !.stack = Put(@, i, value)]

(***************************************************************************)
(* Upvalues (vm.rs 581-631)                                                *)
(***************************************************************************)
RECURSIVE close_upvalues(_, _)
close_upvalues(s, last) ==
  IF s.open_upvalues = <<>> THEN s
  ELSE LET handle == Top(s.open_upvalues).handle IN
    IF handle \notin DOMAIN s.heap THEN Fail(s, "InvalidHandle")
    ELSE IF s.heap[handle].kind # "Upvalue" THEN Fail(s, "InvalidUpvalue")
    ELSE LET location == s.heap[handle].location IN
      IF location < last THEN s
      ELSE Then(StackAt(s, location, "StackUnderflow"), LAMBDA t :
             close_upvalues([t EXCEPT !.heap[handle].value = t.ret,
                                      !.open_upvalues = Front(@)], last))

\* binary_search_by_key on the list, which capture_upvalue keeps sorted by
\* location: the entry with the key, or the place where the key belongs.
SearchHit(q, location) == {i \in 1..Len(q) : q[i].location = location}
SearchMiss(q, location) == Cardinality({i \in 1..Len(q) : q[i].location < location})

InsertAt(q, n, x) == SubSeq(q, 1, n) \o <<x>> \o SubSeq(q, n + 1, Len(q))

capture_upvalue(s, index) ==
  LET location == current_frame(s).fp + index
      hit == SearchHit(s.open_upvalues, location)
  IN IF hit # {}
     THEN {[s EXCEPT !.ret = s.open_upvalues[CHOOSE i \in hit : TRUE].handle]}
     ELSE Each(alloc(s, ObjUpvalue(location)), LAMBDA t :
            {[t EXCEPT !.open_upvalues =
                 InsertAt(@, SearchMiss(s.open_upvalues, location),
                          [location |-> location, handle |-> t.ret])]})

(***************************************************************************)
(* Calls (vm.rs 494-579, 633-699)                                          *)
(***************************************************************************)
\* frames.push(CallFrame { closure, ip: 0, fp: sp - 1 - arg_count }): the
\* subtraction panics on underflow in a debug build and wraps in a release one.
push_frame_above_callee(s, closure, arg_count) ==
  [s EXCEPT !.frames = Append(@, [closure |-> closure, ip |-> 0,
                                  fp |-> s.sp - arg_count])]

push_frame(s, closure, arg_count) ==
  IF s.sp - 1 - arg_count < 0 /\ debug_assertions THEN Fail(s, "panic")
  ELSE [s EXCEPT !.frames = Append(@, [closure |-> closure, ip |-> 0,
                                        fp |-> s.sp - 1 - arg_count])]

RECURSIVE call_value(_, _, _)
call_value(s, value, arg_count) ==
  IF ~IsObj(value) THEN {Fail(s, "ValueNotCallable")}
  ELSE LET handle == value.h IN
    IF handle \notin DOMAIN s.heap THEN {Fail(s, "InvalidHandle")}
    ELSE LET o == s.heap[handle]
             slot == s.sp - 1 - arg_count
             inst == [s EXCEPT !.held = @ \cup {handle} \cup ObjsOfMap(o.methods)]
         IN
      CASE o.kind = "Closure" -> {push_frame(s, handle, arg_count)}
        [] o.kind = "Class" ->
             IF INIT_STRING \in DOMAIN o.methods
             THEN Each(alloc_value(inst, ObjInstance(handle)), LAMBDA t :
                    ThenS(StackSet(t, slot, t.ret), LAMBDA u :
                      call_value(u, o.methods[INIT_STRING], arg_count)))
             ELSE IF arg_count # 0 THEN {Fail(s, "InvalidArguments")}
             ELSE Each(alloc_value(inst, ObjInstance(handle)), LAMBDA t :
                    {StackSet(t, slot, t.ret)})
        [] o.kind = "BoundMethod" ->
             {Then(StackSet(s, slot, o.receiver), LAMBDA t :
                push_frame(t, o.method, arg_count))}
        [] OTHER -> {Fail(s, "ValueNotCallable")}

invoke_from_class(s, handle, name, arg_count) ==
  IF handle \notin DOMAIN s.heap THEN {Fail(s, "InvalidHandle")}
  ELSE IF s.heap[handle].kind # "Class" THEN {Fail(s, "InvalidClass")}
  ELSE IF name \in DOMAIN s.heap[handle].methods
       THEN call_value(s, s.heap[handle].methods[name], arg_count)
       ELSE {Fail(s, "UndefinedMethod")}

\* An invoke that looks in the class's method table only.
invoke_method_only(s, name, arg_count) ==
  ThenS(StackAt(s, s.sp - 1 - arg_count, "StackUnderflow"), LAMBDA t :
    IF ~IsObj(t.ret) THEN {Fail(t, "InvalidObject")}
    ELSE ThenS(get_obj(t, t.ret.h), LAMBDA u :
      IF u.ret.kind # "Instance" THEN {Fail(u, "InvalidObject")}
      ELSE invoke_from_class(u, u.ret.class, name, arg_count)))

invoke(s, name, arg_count) ==
  ThenS(StackAt(s, s.sp - 1 - arg_count, "StackUnderflow"), LAMBDA t :
    IF ~IsObj(t.ret) THEN {Fail(t, "InvalidObject")}
    ELSE ThenS(get_obj(t, t.ret.h), LAMBDA u :
      LET instance == u.ret IN
      IF instance.kind # "Instance" THEN {Fail(u, "InvalidObject")}
      ELSE IF name \in DOMAIN instance.fields
           THEN ThenS(StackSet(u, u.sp - 1 - arg_count, instance.fields[name]),
                      LAMBDA v : call_value(v, instance.fields[name], arg_count))
           ELSE invoke_from_class(u, instance.class, name, arg_count)))

bind_method(s, handle, name) ==
  IF handle \notin DOMAIN s.heap THEN {Fail(s, "InvalidHandle")}
  ELSE LET class == s.heap[handle] IN
    IF class.kind # "Class" THEN {Fail(s, "InvalidClass")}
    ELSE IF name \notin DOMAIN class.methods THEN {Fail(s, "UndefinedProperty")}
    ELSE IF ~IsObj(class.methods[name]) THEN {Fail(s, "InvalidObject")}
    ELSE LET method == class.methods[name].h IN
      ThenS(pop(s), LAMBDA t :
        LET receiver == t.ret
            u == [t EXCEPT !.held = @ \cup {method} \cup
                             (IF IsObj(receiver) THEN {receiver.h} ELSE {})]
        IN alloc_value(u, ObjBoundMethod(receiver, method)))

define_method(s, name) ==
  Then(pop(s), LAMBDA a : LET method == a.ret IN
    Then(pop(a), LAMBDA b : LET value == b.ret IN
      IF ~IsObj(value) THEN Fail(b, "InvalidObject")
      ELSE IF value.h \notin DOMAIN b.heap THEN Fail(b, "InvalidHandle")
      ELSE IF b.heap[value.h].kind # "Class" THEN Fail(b, "InvalidClass")
      ELSE push([b EXCEPT !.heap[value.h].methods = Put(@, name, method)], value)))

(***************************************************************************)
(* Opcode handlers (the arms of the match in Vm::run, vm.rs 121-488).      *)
(* Each takes the machine after fetch_opcode and gives the set of machines *)
(* the arm can leave.                                                      *)
(***************************************************************************)
op_Return(s) ==
  Then(pop(s), LAMBDA a :
    LET value == a.ret
        popped_frame == Top(a.frames)
        b == [a EXCEPT !.frames = Front(@)]
    IN Then(close_upvalues(b, popped_frame.fp), LAMBDA c :
         push([c EXCEPT !.sp = popped_frame.fp], value)))

op_Constant(s) == Then(fetch_const(s), LAMBDA t : push(t, t.ret))

op_Nil(s) == push(s, Nil)

op_True(s) == push(s, Bool(TRUE))

op_False(s) == push(s, Bool(FALSE))

\* value.rs is_falsey
is_falsey(value) == value = Nil \/ value = Bool(FALSE)

\* A fetch16 that takes the low byte first.
fetch16_low_first(s) ==
  Then(fetch(s), LAMBDA a : Then(fetch(a), LAMBDA b :
    [b EXCEPT !.ret = ((b.ret * 256) + a.ret) % 65536]))

\* fetch16: (hi as u16) << 8 | (lo as u16)
fetch16(s) ==
  Then(fetch(s), LAMBDA a : Then(fetch(a), LAMBDA b :
    [b EXCEPT !.ret = ((a.ret * 256) + b.ret) % 65536]))

op_JumpIfFalse(s) ==
  Then(fetch16(s), LAMBDA a : LET offset == a.ret IN
    Then(peek(a), LAMBDA b :
      IF is_falsey(b.ret) THEN [b EXCEPT !.frames[Len(b.frames)].ip = @ + offset]
      ELSE b))

op_Jump(s) ==
  Then(fetch16(s), LAMBDA a : [a EXCEPT !.frames[Len(a.frames)].ip = @ + a.ret])

\* ip -= offset on a usize: below 0 it panics in a debug build and wraps
\* otherwise (a negative ip stands for 2^64 + ip, past the end of any code)
op_Loop(s) ==
  Then(fetch16(s), LAMBDA a :
    IF a.ret > current_frame(a).ip /\ debug_assertions THEN Fail(a, "panic")
    ELSE [a EXCEPT !.frames[Len(a.frames)].ip = @ - a.ret])

op_Equal(s) ==
  Then(pop(s), LAMBDA x : LET b == x.ret IN
    Then(pop(x), LAMBDA y : LET a == y.ret IN
      IF a.t = "Number" /\ b.t = "Number" THEN push(y, Bool(a.n = b.n))
      ELSE IF IsObj(a) /\ IsObj(b)
      THEN Then(get_obj(y, a.h), LAMBDA u : LET obj_a == u.ret IN
             Then(get_obj(u, b.h), LAMBDA v : LET obj_b == v.ret IN
               IF obj_a.kind = "Str" /\ obj_b.kind = "Str"
               THEN push(v, Bool(obj_a.value = obj_b.value))
               ELSE Fail(v, "TypeError")))
      ELSE Fail(y, "InvalidTypeForEquals")))

op_Add(s) ==
  ThenS(pop(s), LAMBDA x : LET b == x.ret IN
    ThenS(pop(x), LAMBDA y : LET a == y.ret IN
      IF a.t = "Number" /\ b.t = "Number" THEN {push(y, Number(a.n + b.n))}
      ELSE IF IsObj(a) /\ IsObj(b)
      THEN ThenS(get_obj(y, a.h), LAMBDA u : LET obj_a == u.ret IN
             ThenS(get_obj(u, b.h), LAMBDA v : LET obj_b == v.ret IN
               IF obj_a.kind = "Str" /\ obj_b.kind = "Str"
               THEN Each(alloc_value(v, ObjString(obj_a.value \o obj_b.value)),
                         LAMBDA w : {push(w, w.ret)})
               ELSE {Fail(v, "TypeError")}))
      ELSE {Fail(y, "InvalidTypeForAddition")}))

\* println!("{:?}", value): a number or a string prints as itself, another
\* object by its variant.  Handle's Debug reads through the pointer without
\* asking the heap, so a handle to a swept object prints whatever is there, or
\* faults.
Line(k, n, str) == [k |-> k, n |-> n, s |-> str]
Show(s, value) ==
  IF value.t = "Number" THEN {Line("Number", value.n, "")}
  ELSE IF value.t = "Bool" THEN {Line("Bool", IF value.b THEN 1 ELSE 0, "")}
  ELSE IF ~IsObj(value) THEN {Line(value.t, 0, "")}
  ELSE IF value.h \in DOMAIN s.heap
       THEN LET o == s.heap[value.h]
            IN {Line(o.kind, 0, IF o.kind = "Str" THEN o.value ELSE "")}
       ELSE {Line("garbage", 0, ""), Line("fault", 0, "")}

op_Print(s) ==
  ThenS(pop(s), LAMBDA t :
    {IF line.k = "fault" THEN Fail(t, "panic")
     ELSE [t EXCEPT !.output = Append(@, line)] : line \in Show(t, t.ret)})

op_Pop(s) == pop(s)

op_DefineGlobal(s) ==
  Then(fetch_str_const(s), LAMBDA t : LET name == t.ret IN
    Then(pop(t), LAMBDA u : [u EXCEPT !.globals = Put(@, name, u.ret)]))

op_GetGlobal(s) ==
  Then(fetch_str_const(s), LAMBDA t : LET name == t.ret IN
    IF name \in DOMAIN t.globals THEN push(t, t.globals[name])
    ELSE Fail(t, "GlobalLookupFailure"))

\* A SetGlobal that binds the name whether or not it is bound.
op_SetGlobal_declaring(s) ==
  Then(fetch_str_const(s), LAMBDA t : LET name == t.ret IN
    Then(peek(t), LAMBDA u : [u EXCEPT !.globals = Put(@, name, u.ret)]))

op_SetGlobal(s) ==
  Then(fetch_str_const(s), LAMBDA t : LET name == t.ret IN
    IF name \notin DOMAIN t.globals THEN Fail(t, "GlobalLookupFailure")
    ELSE Then(peek(t), LAMBDA u : [u EXCEPT !.globals = Put(@, name, u.ret)]))

op_GetLocal(s) ==
  Then(fetch(s), LAMBDA t : LET idx == t.ret IN
    Then(StackAt(t, current_frame(t).fp + idx, "StackOverflow"), LAMBDA u :
      push(u, u.ret)))

\* A SetLocal that takes the value off the stack.
op_SetLocal_popping(s) ==
  Then(fetch(s), LAMBDA t : LET idx == t.ret IN
    Then(pop(t), LAMBDA u :
      StackSet(u, current_frame(u).fp + idx, u.ret)))

op_SetLocal(s) ==
  Then(fetch(s), LAMBDA t : LET idx == t.ret IN
    Then(peek(t), LAMBDA u :
      StackSet(u, current_frame(u).fp + idx, u.ret)))

op_Call(s) ==
  ThenS(fetch(s), LAMBDA t : LET arg_count == t.ret IN
    ThenS(StackAt(t, t.sp - 1 - arg_count, "StackUnderflow"), LAMBDA u :
      call_value(u, u.ret, arg_count)))

\* closure.upvalues.push(handle) on the closure object the constant names
PushUpvalue(s, closure_handle, handle) ==
  IF closure_handle \notin DOMAIN s.heap THEN Fail(s, "InvalidHandle")
  ELSE IF s.heap[closure_handle].kind # "Closure" THEN Fail(s, "InternalVmError")
  ELSE [s EXCEPT !.heap[closure_handle].upvalues = Append(@, handle)]

RECURSIVE ClosureLoop(_, _, _)
ClosureLoop(s, closure_handle, n) ==
  IF n = 0 THEN {s}
  ELSE
    ThenS(fetch(s), LAMBDA a : LET is_local == a.ret # 0 IN
      ThenS(fetch(a), LAMBDA b : LET index == b.ret IN
        IF is_local
        THEN Each(capture_upvalue(b, index), LAMBDA c :
               ThenS(PushUpvalue(c, closure_handle, c.ret), LAMBDA d :
                 ClosureLoop(d, closure_handle, n - 1)))
        ELSE ThenS(current_closure(b), LAMBDA c :
               IF index >= Len(c.ret.upvalues) THEN {Fail(c, "panic")}
               ELSE ThenS(PushUpvalue(c, closure_handle, c.ret.upvalues[index + 1]),
                          LAMBDA d : ClosureLoop(d, closure_handle, n - 1)))))

op_Closure(s) ==
  ThenS(fetch_const(s), LAMBDA a : LET value == a.ret IN
    ThenS(get_handle(a, value), LAMBDA b : LET closure_handle == b.ret IN
      ThenS(push(b, value), LAMBDA c :
        ThenS(get_obj(c, closure_handle), LAMBDA d :
          IF d.ret.kind # "Closure" THEN {Fail(d, "InternalVmError")}
          ELSE ClosureLoop(d, closure_handle, d.ret.upvalue_count)))))

\* self.current_closure()?.upvalues[idx]
UpvalueHandle(s, idx) ==
  Then(current_closure(s), LAMBDA t :
    IF idx >= Len(t.ret.upvalues) THEN Fail(t, "panic")
    ELSE [t EXCEPT !.ret = t.ret.upvalues[idx + 1]])

op_GetUpvalue(s) ==
  Then(fetch(s), LAMBDA a :
    Then(UpvalueHandle(a, a.ret), LAMBDA b :
      Then(get_obj(b, b.ret), LAMBDA c : LET upvalue == c.ret IN
        IF upvalue.kind # "Upvalue" THEN Fail(c, "InternalVmError")
        ELSE IF upvalue.value.t # "None" THEN push(c, upvalue.value)
        ELSE Then(StackAt(c, upvalue.location, "StackOverflow"), LAMBDA d :
               push(d, d.ret)))))

op_SetUpvalue(s) ==
  Then(fetch(s), LAMBDA a : LET idx == a.ret IN
    Then(peek(a), LAMBDA b : LET value == b.ret IN
      Then(UpvalueHandle(b, idx), LAMBDA c : LET upvalue_handle == c.ret IN
        IF upvalue_handle \notin DOMAIN c.heap THEN Fail(c, "InvalidHandle")
        ELSE LET upvalue == c.heap[upvalue_handle] IN
          IF upvalue.kind # "Upvalue" THEN Fail(c, "InternalVmError")
          ELSE IF upvalue.value.t # "None"
               THEN [c EXCEPT !.heap[upvalue_handle].value = value]
               ELSE StackSet(c, upvalue.location, value))))

op_CloseUpvalue(s) ==
  IF s.sp = 0 THEN Fail(s, "panic")
  ELSE Then(close_upvalues(s, s.sp - 1), LAMBDA t : pop(t))

op_Class(s) ==
  ThenS(fetch_str_const(s), LAMBDA t :
    Each(alloc_value(t, ObjClass(t.ret)), LAMBDA u : {push(u, u.ret)}))

\* The GetProperty arm after its operand is fetched
GetPropertyNamed(a, name) ==
  ThenS(peek(a), LAMBDA b :
    IF ~IsObj(b.ret) THEN {Fail(b, "InternalVmError")}
    ELSE ThenS(get_obj(b, b.ret.h), LAMBDA c : LET instance == c.ret IN
      IF instance.kind # "Instance" THEN {Fail(c, "NonInstance")}
      ELSE IF name \in DOMAIN instance.fields
           THEN {Then(pop(c), LAMBDA d : push(d, instance.fields[name]))}
           ELSE Each(bind_method(c, instance.class, name), LAMBDA d :
                  {push(d, d.ret)})))

op_GetProperty(s) ==
  ThenS(fetch_str_const(s), LAMBDA a : GetPropertyNamed(a, a.ret))

op_SetProperty(s) ==
  Then(fetch_str_const(s), LAMBDA a : LET name == a.ret IN
    Then(pop(a), LAMBDA b : LET value == b.ret IN
      Then(pop(b), LAMBDA c :
        IF ~IsObj(c.ret) THEN Fail(c, "InvalidObject")
        ELSE IF c.ret.h \notin DOMAIN c.heap THEN Fail(c, "InvalidHandle")
        ELSE IF c.heap[c.ret.h].kind # "Instance" THEN Fail(c, "InvalidField")
        ELSE push([c EXCEPT !.heap[c.ret.h].fields = Put(@, name, value)], value))))

op_Method(s) == Then(fetch_str_const(s), LAMBDA t : define_method(t, t.ret))

op_Invoke(s) ==
  ThenS(fetch_str_const(s), LAMBDA a : LET name == a.ret IN
    ThenS(fetch(a), LAMBDA b : invoke(b, name, b.ret)))

op_Inherit(s) ==
  Then(pop(s), LAMBDA a : LET subclass_value == a.ret IN
    Then(peek(a), LAMBDA b : LET superclass_value == b.ret IN
      Then(get_handle(b, superclass_value), LAMBDA c :
        Then(get_obj(c, c.ret), LAMBDA d : LET superclass == d.ret IN
          IF superclass.kind # "Class" THEN Fail(d, "InvalidSuperClass")
          ELSE Then(get_handle(d, subclass_value), LAMBDA e :
                 LET subclass_handle == e.ret IN
                 Then(get_obj(e, subclass_handle), LAMBDA g :
                   IF g.ret.kind # "Class" THEN Fail(g, "InvalidSubClass")
                   ELSE [g EXCEPT !.heap[subclass_handle].methods =
                                    superclass.methods]))))))

op_GetSuper(s) ==
  ThenS(fetch_str_const(s), LAMBDA a : LET name == a.ret IN
    ThenS(pop(a), LAMBDA b : LET value == b.ret IN
      IF ~IsObj(value) THEN {Fail(b, "InvalidSuper")}
      ELSE Each(bind_method(b, value.h, name), LAMBDA c : {push(c, c.ret)})))

op_SuperInvoke(s) ==
  ThenS(fetch_str_const(s), LAMBDA a : LET name == a.ret IN
    ThenS(fetch(a), LAMBDA b : LET arg_count == b.ret IN
      ThenS(pop(b), LAMBDA c : LET value == c.ret IN
        IF ~IsObj(value) THEN {Fail(c, "InvalidObject")}
        ELSE invoke_from_class(c, value.h, name, arg_count))))

(***************************************************************************)
(* The state machine                                                       *)
(***************************************************************************)
Init ==
  /\ prog \in ProgramNames
  /\ compiler = CompilerNew
  /\ functions = compile(prog)
  /\ debug_assertions \in BOOLEAN
  /\ status = "new"
  /\ stack = EmptyMap
  /\ sp = 0
  /\ frames = <<>>
  /\ heap = CompiledHeap
  /\ globals = EmptyMap
  /\ open_upvalues = <<>>
  /\ gray_stack = <<>>
  /\ bytes_allocated = 0
  /\ next_gc = INITIAL_GC_THRESHOLD
  /\ output = <<>>
  /\ fresh = FirstFree
  /\ gc = NoGc

\* The machine becomes r; st is what run() has returned, "run" if it goes on.
Set(r, st) ==
  /\ stack' = r.stack
  /\ sp' = r.sp
  /\ frames' = r.frames
  /\ heap' = r.heap
  /\ globals' = r.globals
  /\ open_upvalues' = r.open_upvalues
  /\ gray_stack' = r.gray_stack
  /\ bytes_allocated' = r.bytes_allocated
  /\ next_gc' = r.next_gc
  /\ output' = r.output
  /\ fresh' = r.fresh
  /\ gc' = r.gc
  /\ status' = IF r.err # "" THEN r.err ELSE st
  /\ UNCHANGED <<prog, compiler, functions, debug_assertions>>

\* Vm::interpret up to the call of run (vm.rs 103-116)
interpret(s) ==
  Each(insert(s, ObjClosure(1, <<>>)), LAMBDA a : LET handle == a.ret IN
    ThenS(mark_object(a, handle), LAMBDA b :
      ThenS(push(b, Obj(handle)), LAMBDA c :
        call_value(c, Obj(handle), 0))))

Interpret ==
  /\ status = "new"
  /\ \E r \in interpret(VM) : Set(r, "run")

\* fetch_opcode (vm.rs 747-754): the byte at ip, None past the end of the code
Opcode ==
  IF status # "run" THEN "<stopped>"
  ELSE IF frames = <<>> \/ chunk(VM) = 0 THEN "<panic>"
  ELSE LET code == Fns[chunk(VM)].code
           ip == current_frame(VM).ip
       IN IF ip < 0 \/ ip >= Len(code) THEN "<end>" ELSE code[ip + 1]

Fetched == [VM EXCEPT !.frames[Len(frames)].ip = @ + 1]

\* while let Some(opcode) = self.fetch_opcode() ... Ok(())
Halt ==
  /\ Opcode = "<end>"
  /\ Set(Fetched, "ok")

DefineGlobal == Opcode = "DefineGlobal" /\ Set(op_DefineGlobal(Fetched), "run")
GetGlobal == Opcode = "GetGlobal" /\ Set(op_GetGlobal(Fetched), "run")
Closure == Opcode = "Closure" /\ \E r \in op_Closure(Fetched) : Set(r, "run")

Next ==
  \/ Interpret \/ Halt
  \/ DefineGlobal \/ GetGlobal \/ Closure
  \/ Opcode = "Return" /\ Set(op_Return(Fetched), "run")
  \/ Opcode = "Constant" /\ Set(op_Constant(Fetched), "run")
  \/ Opcode = "Nil" /\ Set(op_Nil(Fetched), "run")
  \/ Opcode = "Add" /\ \E r \in op_Add(Fetched) : Set(r, "run")
  \/ Opcode = "Print" /\ \E r \in op_Print(Fetched) : Set(r, "run")
  \/ Opcode = "Pop" /\ Set(op_Pop(Fetched), "run")
  \/ Opcode = "SetGlobal" /\ Set(op_SetGlobal(Fetched), "run")
  \/ Opcode = "GetLocal" /\ Set(op_GetLocal(Fetched), "run")
  \/ Opcode = "SetLocal" /\ Set(op_SetLocal(Fetched), "run")
  \/ Opcode = "Call" /\ Len(frames) < MaxDepth
       /\ \E r \in op_Call(Fetched) : Set(r, "run")
  \/ Opcode = "GetUpvalue" /\ Set(op_GetUpvalue(Fetched), "run")
  \/ Opcode = "SetUpvalue" /\ Set(op_SetUpvalue(Fetched), "run")
  \/ Opcode = "CloseUpvalue" /\ Set(op_CloseUpvalue(Fetched), "run")
  \/ Opcode = "Class" /\ \E r \in op_Class(Fetched) : Set(r, "run")
  \/ Opcode = "GetProperty" /\ \E r \in op_GetProperty(Fetched) : Set(r, "run")
  \/ Opcode = "SetProperty" /\ Set(op_SetProperty(Fetched), "run")
  \/ Opcode = "Method" /\ Set(op_Method(Fetched), "run")
  \/ Opcode = "Invoke" /\ \E r \in op_Invoke(Fetched) : Set(r, "run")
  \/ Opcode = "Inherit" /\ Set(op_Inherit(Fetched), "run")
  \/ Opcode = "GetSuper" /\ \E r \in op_GetSuper(Fetched) : Set(r, "run")
  \/ Opcode = "SuperInvoke" /\ \E r \in op_SuperInvoke(Fetched) : Set(r, "run")
  \/ Opcode = "True" /\ Set(op_True(Fetched), "run")
  \/ Opcode = "False" /\ Set(op_False(Fetched), "run")
  \/ Opcode = "Equal" /\ Set(op_Equal(Fetched), "run")

Spec == Init /\ [][Next]_vars

(***************************************************************************)
(* Properties                                                              *)
(***************************************************************************)
\* gc lists the cycles the last handler ran; done marks one that ran to the
\* end of sweep.
\* C1: in every collection cycle, every object that was reachable from the
\* roots (stack slots below sp, frame closures, open upvalues, globals) when
\* the cycle began is still in the heap after sweep.
C1_ReachableSurvives ==
  \A i \in 1..Len(gc) : gc[i].done => gc[i].reach \subseteq gc[i].post

\* C2: what a handler holds across the collection its allocation triggers is
\* not freed: no stack slot below sp, no Instance (its class, its fields) and
\* no BoundMethod (its receiver, its method) refers to an object that is not
\* in the heap.
C2_NoFreedReferent ==
  LET holders == {h \in DOMAIN heap : heap[h].kind \in {"Instance", "BoundMethod"}}
  IN (ObjsOfMap(LiveStack(VM)) \cup UNION {Refs(heap[h]) : h \in holders})
       \subseteq DOMAIN heap

\* C3: after every collection cycle every object left in the heap has
\* is_marked = FALSE, and no object that was unreachable from the roots when
\* the cycle began is left in the heap.
C3_SweepResetsAndFrees ==
  \A i \in 1..Len(gc) :
    gc[i].done =>
      /\ gc[i].marked = {}
      /\ (gc[i].pre \ gc[i].reach) \cap gc[i].post = {}

\* A cycle that ran to its end, freed an unreachable object and kept others.
C3_Witness ==
  \E i \in 1..Len(gc) :
    gc[i].done /\ gc[i].pre \ gc[i].reach # {} /\ gc[i].post # {}

\* C4: two closures over one binding see each other's writes and the owner's.
\* In the closures program each call of outer sets x = 7 through a and y = n
\* through SetLocal, then b, which reads y + x through its upvalues, is called
\* twice: the four lines printed are 8, 8 for outer(1) and 9, 9 for outer(2).
C4_SharedBinding ==
  prog = "closures" =>
    \A i \in 1..Len(output) : output[i].n = (IF i <= 2 THEN 8 ELSE 9)

\* C5: an upvalue is open exactly while its slot is live: every entry of
\* open_upvalues names an Upvalue object with no closed value whose slot is an
\* occupied slot below sp, and every Upvalue object with no closed value is
\* listed in open_upvalues.
C5_OpenWhileLive ==
  status = "run" =>
    /\ \A i \in 1..Len(open_upvalues) :
         LET e == open_upvalues[i] IN
           /\ e.handle \in DOMAIN heap
           /\ heap[e.handle].kind = "Upvalue"
           /\ heap[e.handle].value.t = "None"
           /\ e.location \in DOMAIN LiveStack(VM)
    /\ \A h \in DOMAIN heap :
         (heap[h].kind = "Upvalue" /\ heap[h].value.t = "None")
           => \E i \in 1..Len(open_upvalues) : open_upvalues[i].handle = h

\* C6: between opcodes open_upvalues is strictly increasing by location and
\* every location in it is below sp.
C6_OpenSortedBelowSp ==
  status = "run" =>
    /\ \A i \in 1..Len(open_upvalues) : open_upvalues[i].location < sp
    /\ \A i \in 1..(Len(open_upvalues) - 1) :
         open_upvalues[i].location < open_upvalues[i + 1].location

\* C7: after every execution of the Closure opcode the closure it pushed has
\* exactly upvalue_count upvalues.
C7_UpvaluesLength ==
  [][(Opcode = "Closure" /\ status' = "run") =>
       LET pushed == stack'[sp' - 1].h
       IN Len(heap'[pushed].upvalues) = heap'[pushed].upvalue_count]_vars

\* C8: a Return in a frame with frame pointer fp pops the frame, leaves
\* sp = fp + 1 with the returned value in slot fp, and leaves no open upvalue
\* at a location >= fp.
C8_ReturnEffect ==
  [][Opcode = "Return" =>
       LET fp == Top(frames).fp IN
         /\ Len(frames') = Len(frames) - 1
         /\ sp' = fp + 1
         /\ fp \in DOMAIN stack' /\ stack'[fp] = stack[sp - 1]
         /\ \A i \in 1..Len(open_upvalues') : open_upvalues'[i].location < fp]_vars

\* C9: a Call of a closure with an argument count other than its arity is a
\* runtime error and pushes no frame.
C9_ArityChecked ==
  [][LET arg_count == Fns[chunk(VM)].code[current_frame(VM).ip + 2]
         slot == sp - 1 - arg_count
     IN (/\ Opcode = "Call"
         /\ slot \in DOMAIN stack
         /\ IsObj(stack[slot]) /\ stack[slot].h \in DOMAIN heap
         /\ heap[stack[slot].h].kind = "Closure"
         /\ heap[stack[slot].h].arity # arg_count)
        => (status' # "run" /\ frames' = frames)]_vars

\* C10: the frame stack never holds more than FRAMES_MAX frames.
C10_FramesBounded == Len(frames) <= FRAMES_MAX

(***************************************************************************)
(* The unbounded recursion `fun r() { r(); } r();` near the capacity of    *)
(* the value stack.  Deep(k) is the machine that program is in when k      *)
(* frames of r are on the frame stack and the k-th has just been entered:  *)
(* the script's frame waits after its Call (ip 8), every frame of r but    *)
(* the last after its own (ip 4), and slot i holds the closure r that      *)
(* frame i was called with.  DeepSpec runs the program from its start for  *)
(* MaxDepth frames, and from Deep(STACK_MAX - 1 - DeepWindow) on until     *)
(* push reports the overflow.                                              *)
(***************************************************************************)
DeepScript == FirstFree
DeepR == ConstAddr(1, 1)

DeepFrames(k) ==
  [i \in 1..(k + 1) |->
     IF i = 1 THEN [closure |-> DeepScript, ip |-> 8, fp |-> 0]
     ELSE [closure |-> DeepR, ip |-> (IF i = k + 1 THEN 0 ELSE 4), fp |-> i - 1]]

DeepStack(k) == [i \in 0..k |-> IF i = 0 THEN Obj(DeepScript) ELSE Obj(DeepR)]

DeepHeap ==
  Put(CompiledHeap, DeepScript, [ObjClosure(1, <<>>) EXCEPT !.is_marked = TRUE])

DeepInit ==
  /\ prog = "recurse"
  /\ compiler = CompilerNew
  /\ functions = compile(prog)
  /\ debug_assertions \in BOOLEAN
  /\ \/ /\ status = "new"
        /\ stack = EmptyMap /\ sp = 0 /\ frames = <<>>
        /\ heap = CompiledHeap /\ globals = EmptyMap
        /\ gray_stack = <<>> /\ fresh = FirstFree
     \/ /\ status = "run"
        /\ stack = DeepStack(STACK_MAX - 1 - DeepWindow)
        /\ sp = STACK_MAX - DeepWindow
        /\ frames = DeepFrames(STACK_MAX - 1 - DeepWindow)
        /\ heap = DeepHeap
        /\ globals = Put(EmptyMap, "r", Obj(DeepR))
        /\ gray_stack = <<DeepScript>> /\ fresh = FirstFree + 1
  /\ open_upvalues = <<>>
  /\ bytes_allocated = 0
  /\ next_gc = INITIAL_GC_THRESHOLD
  /\ output = <<>>
  /\ gc = NoGc

CallDeep ==
  /\ Opcode = "Call"
  /\ Len(frames) < MaxDepth \/ Len(frames) >= STACK_MAX - DeepWindow
  /\ \E r \in op_Call(Fetched) : Set(r, "run")

DeepNext == Interpret \/ Closure \/ DefineGlobal \/ GetGlobal \/ CallDeep

DeepSpec == DeepInit /\ [][DeepNext]_vars

\* C11: 0 <= sp <= STACK_MAX always; a push at sp = STACK_MAX is
\* Err(StackOverflow), a pop at sp = 0 is Err(StackUnderflow), and either
\* leaves sp and the stack as they were.
C11_StackBounds ==
  /\ 0 <= sp /\ sp <= STACK_MAX
  /\ sp = STACK_MAX =>
       LET r == push(VM, Nil)
       IN r.err = "StackOverflow" /\ r.sp = sp /\ r.stack = stack
  /\ sp = 0 =>
       LET r == pop(VM)
       IN r.err = "StackUnderflow" /\ r.sp = sp /\ r.stack = stack
  /\ status = "StackOverflow" => sp = STACK_MAX

\* The recursion has filled the stack and the next push has been refused.
C11_Witness == status = "StackOverflow" /\ sp = STACK_MAX /\ Len(frames) > FRAMES_MAX

C13_ClassCall ==
  [][LET code == Fns[chunk(VM)].code
         ip == current_frame(VM).ip
         arg_count == code[ip + 2]
         slot == sp - 1 - arg_count
         callee == stack[slot]
         o == heap[callee.h]
         fp == Top(frames).fp
     IN /\ (/\ Opcode = "Call" /\ slot \in DOMAIN stack /\ IsObj(callee)
            /\ callee.h \in DOMAIN heap /\ o.kind = "Class")
           => IF INIT_STRING \notin DOMAIN o.methods /\ arg_count # 0
              THEN status' = "InvalidArguments" /\ heap' = heap
                   /\ Len(frames') = Len(frames) /\ stack' = stack
              ELSE /\ status' = "run"
                   /\ sp' = sp
                   /\ IsObj(stack'[slot])
                   /\ stack'[slot].h \in DOMAIN heap'
                   /\ heap'[stack'[slot].h].kind = "Instance"
                   /\ heap'[stack'[slot].h].class = callee.h
                   /\ heap'[stack'[slot].h].fields = EmptyMap
                   /\ \A i \in 1..arg_count : stack'[slot + i] = stack[slot + i]
                   /\ IF INIT_STRING \in DOMAIN o.methods
                      THEN /\ Len(frames') = Len(frames) + 1
                           /\ Obj(Top(frames').closure) = o.methods[INIT_STRING]
                           /\ Top(frames').fp = slot
                           /\ Top(frames').ip = 0
                      ELSE Len(frames') = Len(frames)
        /\ (Opcode = "Return" /\ Fns[chunk(VM)].name = INIT_STRING)
           => /\ status' = "run"
              /\ sp' = fp + 1
              /\ stack'[fp] = stack[fp]
              /\ IsObj(stack'[fp])
              /\ stack'[fp].h \in DOMAIN heap'
              /\ heap'[stack'[fp].h].kind = "Instance"]_vars

\* Q("p") has returned from the initializer Q inherited from P: the callee
\* slot holds the instance of Q, its field set by the initializer.
C13_Witness ==
  /\ status = "run" /\ prog = "inherit" /\ Len(frames) = 1
  /\ Opcode = "DefineGlobal" /\ sp = 2
  /\ IsObj(stack[1]) /\ stack[1].h \in DOMAIN heap
  /\ heap[stack[1].h].kind = "Instance"
  /\ "k" \in DOMAIN heap[stack[1].h].fields
  /\ heap[stack[1].h].class \in DOMAIN heap
  /\ heap[heap[stack[1].h].class].name = "Q"

\* What a run reads off the machine a handler left: that it failed, or the
\* stack, frames, globals and fields of the instances.
Observed(r) ==
  IF r.err # "" THEN [failed |-> TRUE]
  ELSE [failed |-> FALSE, stack |-> r.stack, sp |-> r.sp, frames |-> r.frames,
        globals |-> r.globals,
        fields |-> [h \in {x \in DOMAIN r.heap : r.heap[x].kind = "Instance"}
                      |-> r.heap[h].fields]]

\* GetProperty name on the receiver with the arg_count arguments above it set
\* aside, the arguments put back, then call_value as the Call arm does it.
GetPropertyThenCall(s) ==
  ThenS(fetch_str_const(s), LAMBDA a : LET name == a.ret IN
    ThenS(fetch(a), LAMBDA b :
      LET arg_count == b.ret
          slot == b.sp - 1 - arg_count
          below == [b EXCEPT !.sp = slot + 1,
                             !.stack = [i \in {x \in DOMAIN b.stack : x <= slot}
                                          |-> b.stack[i]]]
      IN Each(GetPropertyNamed(below, name), LAMBDA c :
           LET d == [c EXCEPT !.sp = b.sp,
                              !.stack = [i \in DOMAIN b.stack |->
                                           IF i <= slot THEN c.stack[i]
                                           ELSE b.stack[i]]]
           IN ThenS(StackAt(d, slot, "StackUnderflow"), LAMBDA e :
                call_value(e, e.ret, arg_count)))))

C15_SuperCall ==
  [][LET code == Fns[chunk(VM)].code
         ip == current_frame(VM).ip
         name == heap[ConstAddr(chunk(VM), code[ip + 2])].value
         top == stack[sp - 1]
     IN /\ prog = "super" => status' \in {"run", "ok"}
        /\ Opcode = "Inherit" =>
             /\ status' = "run"
             /\ heap'[stack[sp - 1].h].methods = heap[stack[sp - 2].h].methods
             /\ heap'[stack[sp - 2].h] = heap[stack[sp - 2].h]
        /\ (Opcode = "Method" /\ status' = "run") =>
             /\ heap'[stack[sp - 2].h].methods
                  = Put(heap[stack[sp - 2].h].methods, name, top)
             /\ \A h \in DOMAIN heap \ {stack[sp - 2].h} : heap'[h] = heap[h]
        /\ Opcode = "SuperInvoke" =>
             LET arg_count == code[ip + 3]
                 this == stack[sp - 2 - arg_count]
             IN /\ status' = "run"
                /\ Len(frames') = Len(frames) + 1
                /\ Obj(Top(frames').closure) = heap[top.h].methods[name]
                /\ Top(frames').fp = sp - 2 - arg_count
                /\ stack'[Top(frames').fp] = this
                /\ heap[this.h].kind = "Instance"
                /\ heap[heap[this.h].class].methods[name]
                     # heap[top.h].methods[name]
        /\ Opcode = "GetSuper" =>
             /\ status' = "run"
             /\ heap'[stack'[sp' - 1].h]
                  = ObjBoundMethod(stack[sp - 2], heap[top.h].methods[name].h)]_vars

\* C16: Equal raises no error and replaces its two operands by one Bool: true
\* for two Nils, two equal Bools, two equal Numbers, two Strings of the same
\* content; false for two values of different variants.
C16_EqualTotal ==
  [][Opcode = "Equal" =>
       LET a == stack[sp - 2]
           b == stack[sp - 1]
           same == CASE a.t # b.t -> FALSE
                     [] a.t = "Nil" -> TRUE
                     [] a.t = "Bool" -> a.b = b.b
                     [] a.t = "Number" -> a.n = b.n
                     [] OTHER -> heap[a.h].value = heap[b.h].value
       IN /\ status' = "run"
          /\ sp' = sp - 1
          /\ stack'[sp - 2] = Bool(same)]_vars

\* C17: DefineGlobal binds the name to the popped value, bound before or not;
\* GetGlobal of an unbound name is a runtime error; SetGlobal of an unbound
\* name is a runtime error and leaves the globals as they were; SetGlobal of a
\* bound name rebinds it and leaves the assigned value on the stack.
C17_Globals ==
  [][LET code == Fns[chunk(VM)].code
         ip == current_frame(VM).ip
         name == heap[ConstAddr(chunk(VM), code[ip + 2])].value
         bound == name \in DOMAIN globals
     IN /\ Opcode = "DefineGlobal" =>
             /\ status' = "run"
             /\ globals' = Put(globals, name, stack[sp - 1])
             /\ sp' = sp - 1
        /\ Opcode = "GetGlobal" =>
             IF bound
             THEN /\ status' = "run" /\ sp' = sp + 1
                  /\ stack'[sp] = globals[name] /\ globals' = globals
             ELSE status' = "GlobalLookupFailure" /\ globals' = globals
        /\ Opcode = "SetGlobal" =>
             IF bound
             THEN /\ status' = "run" /\ sp' = sp /\ stack' = stack
                  /\ globals' = Put(globals, name, stack[sp - 1])
             ELSE status' = "GlobalLookupFailure" /\ globals' = globals
                  /\ stack' = stack /\ sp' = sp]_vars

\* y = 4; has failed after x was defined twice and assigned: x is bound to the
\* assigned value, y is not bound.
C17_Witness ==
  /\ prog = "globals" /\ status = "GlobalLookupFailure"
  /\ DOMAIN globals = {"x"} /\ globals["x"] = Number(3)
  /\ Len(output) = 1

\* C18: every allocation of a handler adds lox_obj_size to bytes_allocated
\* (sweep taking it off again for each object it frees); an allocation that
\* makes bytes_allocated exceed next_gc runs a collection, to its end, before
\* the object is inserted; after a collection next_gc = 2 * bytes_allocated.
C18_Accounting ==
  [][(status = "run" /\ status' = "run") =>
       LET allocs == IF DEV_GC_TESTING /\ debug_assertions THEN Len(gc')
                     ELSE fresh' - fresh
           freed == {<<i, h>> \in (1..Len(gc')) \X DOMAIN heap :
                       h \in gc'[i].pre \ gc'[i].post}
       IN /\ bytes_allocated'
               = bytes_allocated + lox_obj_size * (allocs - Cardinality(freed))
          /\ \A i \in 1..Len(gc') : gc'[i].done
          /\ Len(gc') > 0 => next_gc' = GC_HEAP_GROW_FACTOR * bytes_allocated'
          /\ (allocs > 0 /\ UGt(bytes_allocated + lox_obj_size, next_gc))
               => Len(gc') > 0]_vars

(***************************************************************************)
(* The compiler proper (compiler.rs, token.rs, chunk.rs).  The input is    *)
(* the token stream the scanner yields.  A chunk's code holds the opcodes  *)
(* by name and their operand bytes as numbers; its line table is left out. *)
(* log is the record of what the compiler did, for the properties.         *)
(***************************************************************************)
U16_MAX == 65535

\* A Num token carries its text, a Str or Ident token its characters.
\* The number a Num token carries, from its digits.
ParseNum(w) ==
  CASE w = "0" -> 0 [] w = "1" -> 1 [] w = "2" -> 2 [] w = "3" -> 3

Scan(words) ==
  LET TokenTypes ==
        {"LParen", "RParen", "LBrace", "RBrace", "Comma", "Dot", "Minus",
         "Plus", "Semicolon", "Slash", "Star", "Bang", "BangEq", "Equal",
         "EqualEq", "Greater", "GreaterEq", "Less", "LessEq", "And", "Class",
         "Else", "False", "For", "Fun", "If", "Nil", "Or", "Print", "Return",
         "Super", "This", "True", "Var", "While"}
      Token(w) ==
        IF w \in TokenTypes THEN [tok_type |-> w, value |-> ""]
        ELSE IF w \in {"0", "1", "2", "3"} THEN [tok_type |-> "Num", value |-> w]
        ELSE IF w \in {"'s'", "'t'"} THEN [tok_type |-> "Str", value |-> w]
        ELSE [tok_type |-> "Ident", value |-> w]
  IN [i \in 1..Len(words) |-> Token(words[i])]

\* TokenType::precedence
precedence(tok_type) ==
  CASE tok_type = "Equal" -> 1
    [] tok_type = "Or" -> 2
    [] tok_type = "And" -> 3
    [] tok_type \in {"EqualEq", "BangEq"} -> 4
    [] tok_type \in {"Less", "LessEq", "Greater", "GreaterEq"} -> 5
    [] tok_type \in {"Plus", "Minus"} -> 6
    [] tok_type \in {"Star", "Slash"} -> 7
    [] tok_type = "Bang" -> 8
    [] tok_type = "Dot" -> 9
    [] OTHER -> 0

\* Chunk::add_constant on the chunk of the function being compiled.  The
\* index is constants.len() as u8 - 1: a u8 subtraction, which a build with
\* debug assertions checks for overflow and a build without them wraps.
add_constant(c, value) ==
  LET len == (Len(c.function.constants) + 1) % 256
  IN With(IF Len(c.function.constants) >= 256 THEN Fail(c, "CompileError")
          ELSE IF len - 1 < 0 /\ debug_assertions
          THEN Fail([c EXCEPT !.function.constants = Append(@, value)], "panic")
          ELSE [c EXCEPT !.function.constants = Append(@, value),
                         !.ret = (len - 1) % 256],
          LAMBDA r :
            [r EXCEPT !.log = Append(@, [op |-> "add_constant", value |-> value,
                                         constants |-> c.function.constants,
                                         after |-> r.function.constants,
                                         ret |-> r.ret, err |-> r.err])])

\* Chunk::write by way of Codegen::emit_byte
emit_byte(c, value) == [c EXCEPT !.function.code = Append(@, value)]

\* The operand's offset is returned.
emit_jump(c, value) ==
  With(emit_byte(emit_byte(emit_byte(c, value), 255), 255), LAMBDA d :
    [d EXCEPT !.ret = Len(d.function.code) - 2])

\* A patch_jump that refuses the widest 16-bit distance as well.
patch_jump_narrow(c, offset) ==
  LET jump == Len(c.function.code) - offset - 2
  IN IF jump < 0
     THEN Fail(c, IF debug_assertions THEN "panic" ELSE "InternalCompilerError")
     ELSE IF jump >= U16_MAX THEN Fail(c, "InternalCompilerError")
     ELSE [c EXCEPT !.function.code[offset + 1] = ((jump % 65536) \div 256) % 256,
                    !.function.code[offset + 2] = (jump % 65536) % 256,
                    !.jumps = Append(@, [offset |-> offset,
                                         target |-> Len(c.function.code),
                                         nest |-> Len(c.locals_stack)])]

\* offset counts bytes from 0; jump is a usize: code.len() - offset - 2
patch_jump(c, offset) ==
  LET jump == Len(c.function.code) - offset - 2
  IN IF jump < 0
     THEN Fail(c, IF debug_assertions THEN "panic" ELSE "InternalCompilerError")
     ELSE IF jump > U16_MAX THEN Fail(c, "InternalCompilerError")
     ELSE [c EXCEPT !.function.code[offset + 1] = ((jump % 65536) \div 256) % 256,
                    !.function.code[offset + 2] = (jump % 65536) % 256,
                    !.jumps = Append(@, [offset |-> offset,
                                         target |-> Len(c.function.code),
                                         nest |-> Len(c.locals_stack)])]

\* An add_local whose list holds one local more.
add_local_wider(c, name) ==
  With(IF Len(c.locals) = 257 THEN Fail(c, "TooManyLocalVariables")
       ELSE [c EXCEPT !.locals = Append(@, Local(name, -1))],
       LAMBDA r :
         [r EXCEPT !.log = Append(@, [op |-> "add_local", name |-> name,
                                      len |-> Len(c.locals),
                                      after |-> Len(r.locals), err |-> r.err])])

\* Compiler::add_local (compiler.rs 370-382)
add_local(c, name) ==
  With(IF Len(c.locals) = 256 THEN Fail(c, "TooManyLocalVariables")
       ELSE [c EXCEPT !.locals = Append(@, Local(name, -1))],
       LAMBDA r :
         [r EXCEPT !.log = Append(@, [op |-> "add_local", name |-> name,
                                      len |-> Len(c.locals),
                                      after |-> Len(r.locals), err |-> r.err])])

\* A declare_variable that looks for the name in every scope.
declare_variable_unscoped(c, name) ==
  With(IF c.scope_depth = 0 THEN c
       ELSE IF \E i \in 1..Len(c.locals) : c.locals[i].name = name
       THEN Fail(c, "CompileError: variable with name already exists")
       ELSE add_local(c, name),
       LAMBDA r :
         [r EXCEPT !.log = Append(@, [op |-> "declare_variable",
                                      name |-> name,
                                      scope_depth |-> c.scope_depth,
                                      locals |-> c.locals,
                                      after |-> r.locals, err |-> r.err])])

\* Compiler::declare_variable (compiler.rs 350-368)
declare_variable(c, name) ==
  LET n == Len(c.locals)
      \* where the loop from the last local down breaks
      outer == {i \in 1..n : c.locals[i].depth # -1
                              /\ c.locals[i].depth < c.scope_depth}
      stop == IF outer = {} THEN 0
              ELSE CHOOSE i \in outer : \A k \in outer : k <= i
  IN With(IF c.scope_depth = 0 THEN c
          ELSE IF \E i \in (stop + 1)..n : c.locals[i].name = name
          THEN Fail(c, "CompileError: variable with name already exists")
          ELSE add_local(c, name),
          LAMBDA r :
            [r EXCEPT !.log = Append(@, [op |-> "declare_variable",
                                         name |-> name,
                                         scope_depth |-> c.scope_depth,
                                         locals |-> c.locals,
                                         after |-> r.locals, err |-> r.err])])

\* Compiler::begin_scope, Compiler::end_scope (compiler.rs 444-468)
begin_scope(c) == [c EXCEPT !.scope_depth = @ + 1]

\* An end_scope that pops every local, captured or not.
end_scope_popping(c) ==
  LET RECURSIVE Loop(_, _)
      Loop(d, n) ==
        IF n = 0 \/ d.locals = <<>> \/ Top(d.locals).depth <= d.scope_depth
        THEN d
        ELSE IF n > 1 THEN Loop(Loop(d, n \div 2), n - n \div 2)
        ELSE [emit_byte(d, "Pop") EXCEPT !.locals = Front(@)]
  IN With(Loop([c EXCEPT !.scope_depth = @ - 1], Len(c.locals)), LAMBDA r :
       [r EXCEPT !.log = Append(@, [op |-> "end_scope",
                                    scope_depth |-> c.scope_depth,
                                    locals |-> c.locals, after |-> r.locals,
                                    code |-> c.function.code,
                                    emitted |-> r.function.code,
                                    upvalues |-> c.upvalues = r.upvalues])])

\* The loop has at most as many turns as there are locals; Loop(d, n) is n
\* turns, halved to keep the evaluation shallow.
end_scope(c) ==
  LET RECURSIVE Loop(_, _)
      Loop(d, n) ==
        IF n = 0 \/ d.locals = <<>> \/ Top(d.locals).depth <= d.scope_depth
        THEN d
        ELSE IF n > 1 THEN Loop(Loop(d, n \div 2), n - n \div 2)
        ELSE [emit_byte(d, IF Top(d.locals).is_captured
                           THEN "CloseUpvalue" ELSE "Pop")
                EXCEPT !.locals = Front(@)]
  IN With(Loop([c EXCEPT !.scope_depth = @ - 1], Len(c.locals)), LAMBDA r :
       [r EXCEPT !.log = Append(@, [op |-> "end_scope",
                                    scope_depth |-> c.scope_depth,
                                    locals |-> c.locals, after |-> r.locals,
                                    code |-> c.function.code,
                                    emitted |-> r.function.code,
                                    upvalues |-> c.upvalues = r.upvalues])])

\* impl Compiler (compiler.rs 102-1118): the function fn applied to the
\* compiler d and the arguments x.  A function that returns a value leaves
\* it in ret.
\* The code of a statement or declaration ends here: entered in marks.
Mark(c) ==
  IF c.err # "" THEN c
  ELSE [c EXCEPT !.marks = Append(@, [at |-> Len(c.function.code),
                                      locals |-> Len(c.locals),
                                      nest |-> Len(c.locals_stack)])]

RECURSIVE Compiler(_, _, _)
Compiler(fn, d, x) ==
  LET NoToken == [tok_type |-> "None", value |-> ""]
      Ident(id) == [tok_type |-> "Ident", value |-> id]
  IN
  CASE fn = "declaration" ->
         LET t == Compiler("peek_type", d, <<>>)
         IN Mark(CASE t = "Var" -> Compiler("var_declaration", d, <<>>)
                   [] t = "Fun" -> Compiler("fun_declaration", d, <<>>)
                   [] t = "Class" -> Compiler("class_declaration", d, <<>>)
                   [] OTHER -> Compiler("statement", d, <<>>))
    [] fn = "peek_type" ->
         IF d.scanner = <<>> THEN "None" ELSE Head(d.scanner).tok_type
    [] fn = "advance" ->
         IF d.scanner = <<>> THEN [d EXCEPT !.ret = NoToken]
           ELSE [d EXCEPT !.scanner = Tail(@), !.ret = Head(d.scanner)]
    [] fn = "expect" ->
         LET expected_type == x[1]
         IN With(Compiler("advance", d, <<>>), LAMBDA a :
             IF a.ret.tok_type = expected_type THEN a
             ELSE Fail(a, "UnexpectedToken"))
    [] fn = "emit_bytes" ->
         LET value1 == x[1]
             value2 == x[2]
         IN emit_byte(emit_byte(d, value1), value2)
    [] fn = "emit_const" ->
         LET value == x[1]
         IN Then(add_constant(d, value), LAMBDA a : Compiler("emit_bytes", a, <<"Constant", a.ret>>))
    [] fn = "emit_closure" ->
         LET value == x[1]
         IN Then(add_constant(d, value), LAMBDA a : Compiler("emit_bytes", a, <<"Closure", a.ret>>))
    [] fn = "emit_loop" ->
         LET loop_start == x[1]
         IN With(emit_byte(d, "Loop"), LAMBDA a :
             LET offset == Len(a.function.code) - loop_start + 2
             IN IF offset > U16_MAX THEN Fail(a, "InternalCompilerError")
                ELSE [Compiler("emit_bytes", a, <<(offset \div 256) % 256, offset % 256>>)
                        EXCEPT !.jumps = Append(@, [offset |-> Len(a.function.code),
                                                    target |-> loop_start,
                                                    nest |-> Len(a.locals_stack)])])
    [] fn = "emit_return" ->
         emit_byte(IF d.fun_type = "Initializer" THEN Compiler("emit_bytes", d, <<"GetLocal", 0>>)
                     ELSE emit_byte(d, "Nil"), "Return")
    [] fn = "make_string" ->
         LET value == x[1]
         IN [d EXCEPT !.heap = Append(@, ObjString(value)), !.ret = Len(d.heap) + 1]
    \* make_string, then add_constant of the handle
    [] fn = "string_constant" ->
         LET value == x[1]
         IN With(Compiler("make_string", d, <<value>>), LAMBDA a : add_constant(a, Obj(a.ret)))
    [] fn = "mark_initialized" ->
         IF d.scope_depth # 0
           THEN [d EXCEPT !.locals[Len(d.locals)].depth = d.scope_depth]
           ELSE d
    [] fn = "define_variable" ->
         LET const_idx == x[1]
         IN IF d.scope_depth <= 0 THEN Compiler("emit_bytes", d, <<"DefineGlobal", const_idx>>)
           ELSE Compiler("mark_initialized", d, <<>>)
    [] fn = "parse_variable" ->
         With(Compiler("advance", d, <<>>), LAMBDA a :
             IF a.ret.tok_type # "Ident" THEN Fail(a, "UnexpectedToken")
             ELSE Then(declare_variable(a, a.ret.value), LAMBDA b :
                    IF b.scope_depth > 0 THEN [b EXCEPT !.ret = 0]
                    ELSE Compiler("string_constant", b, <<a.ret.value>>)))
    \* ret is the pair (global, name)
    [] fn = "parse_function_name" ->
         With(Compiler("advance", d, <<>>), LAMBDA a : LET id == a.ret.value IN
             IF a.ret.tok_type # "Ident" THEN Fail(a, "UnexpectedToken")
             ELSE Then(declare_variable(a, id), LAMBDA b :
                    IF b.scope_depth > 0
                    THEN [b EXCEPT !.ret = [global |-> 0, name |-> id]]
                    ELSE Then(Compiler("string_constant", b, <<id>>), LAMBDA e :
                           [e EXCEPT !.ret = [global |-> e.ret, name |-> id]])))
    [] fn = "expression" ->
         Compiler("parse_precedence", d, <<precedence("Equal")>>)
    \* ------------------------------------------------------ expressions
    \* named_variable; the resolution itself is the operator named_variable.
    [] fn = "named_variable" ->
         LET name == x[1]
             can_assign == x[2]
         IN IF name.tok_type \notin {"Ident", "This"} THEN Fail(d, "UnexpectedToken")
           ELSE LET value == IF name.tok_type = "This" THEN "this" ELSE name.value
                IN Then(named_variable(d, value), LAMBDA r :
                     LET kind == r.resolved.kind
                         get_op == CASE kind = "local" -> "GetLocal"
                                     [] kind = "upvalue" -> "GetUpvalue"
                                     [] OTHER -> "GetGlobal"
                         set_op == CASE kind = "local" -> "SetLocal"
                                     [] kind = "upvalue" -> "SetUpvalue"
                                     [] OTHER -> "SetGlobal"
                     IN Then(IF kind # "global" THEN [r EXCEPT !.ret = r.resolved.index]
                             ELSE Compiler("string_constant", r, <<value>>), LAMBDA b :
                          IF Compiler("peek_type", b, <<>>) = "Equal" /\ can_assign
                          THEN Then(Compiler("expression", Compiler("advance", b, <<>>), <<>>), LAMBDA e :
                                 Compiler("emit_bytes", e, <<set_op, b.ret>>))
                          ELSE Compiler("emit_bytes", b, <<get_op, b.ret>>)))
    [] fn = "variable" ->
         LET can_assign == x[1]
         IN With(Compiler("advance", d, <<>>), LAMBDA a :
             IF a.ret = NoToken THEN Fail(a, "UnexpectedEof")
             ELSE Compiler("named_variable", a, <<a.ret, can_assign>>))
    [] fn = "binary" ->
         With(Compiler("advance", d, <<>>), LAMBDA a : LET op == a.ret.tok_type IN
             IF a.ret = NoToken THEN Fail(a, "UnexpectedEof")
             ELSE Then(Compiler("parse_precedence", a, <<precedence(op) + 1>>), LAMBDA e :
               CASE op = "Plus" -> emit_byte(e, "Add")
                 [] op = "Minus" -> emit_byte(e, "Subtract")
                 [] op = "Star" -> emit_byte(e, "Multiply")
                 [] op = "Slash" -> emit_byte(e, "Divide")
                 [] op = "BangEq" -> Compiler("emit_bytes", e, <<"Equal", "Not">>)
                 [] op = "EqualEq" -> emit_byte(e, "Equal")
                 [] op = "Greater" -> emit_byte(e, "Greater")
                 [] op = "GreaterEq" -> Compiler("emit_bytes", e, <<"Less", "Not">>)
                 [] op = "Less" -> emit_byte(e, "Less")
                 [] op = "LessEq" -> Compiler("emit_bytes", e, <<"Greater", "Not">>)
                 [] OTHER -> Fail(e, "UnexpectedToken")))
    [] fn = "unary" ->
         With(Compiler("advance", d, <<>>), LAMBDA a : LET op == a.ret.tok_type IN
             IF a.ret = NoToken THEN Fail(a, "UnexpectedEof")
             ELSE Then(Compiler("expression", a, <<>>), LAMBDA e :
                    CASE op = "Minus" -> emit_byte(e, "Negate")
                      [] op = "Bang" -> emit_byte(e, "Not")
                      [] OTHER -> Fail(e, "UnexpectedToken")))
    [] fn = "grouping" ->
         Then(Compiler("expect", d, <<"LParen">>), LAMBDA a :
             Then(Compiler("expression", a, <<>>), LAMBDA b : Compiler("expect", b, <<"RParen">>)))
    [] fn = "number" ->
         With(Compiler("advance", d, <<>>), LAMBDA a :
             IF a.ret.tok_type = "Num" THEN Compiler("emit_const", a, <<Number(ParseNum(a.ret.value))>>)
             ELSE Fail(a, "UnexpectedToken"))
    [] fn = "literal" ->
         With(Compiler("advance", d, <<>>), LAMBDA a :
             CASE a.ret.tok_type = "Nil" -> emit_byte(a, "Nil")
               [] a.ret.tok_type = "True" -> emit_byte(a, "True")
               [] a.ret.tok_type = "False" -> emit_byte(a, "False")
               [] OTHER -> Fail(a, "panic"))
    [] fn = "string" ->
         With(Compiler("advance", d, <<>>), LAMBDA a :
             IF a.ret.tok_type = "Str"
             THEN With(Compiler("make_string", a, <<a.ret.value>>), LAMBDA b :
                    Compiler("emit_const", b, <<Obj(b.ret)>>))
             ELSE Fail(a, "UnexpectedToken"))
    [] fn = "and" ->
         With(emit_jump(d, "JumpIfFalse"), LAMBDA a :
             Then(Compiler("parse_precedence", emit_byte(a, "Pop"), <<precedence("And")>>),
                  LAMBDA b : patch_jump(b, a.ret)))
    [] fn = "or" ->
         With(emit_jump(d, "JumpIfFalse"), LAMBDA a :
             With(emit_jump(a, "Jump"), LAMBDA b :
               Then(patch_jump(b, a.ret), LAMBDA e :
                 Then(Compiler("parse_precedence", emit_byte(e, "Pop"), <<precedence("Or")>>),
                      LAMBDA f : patch_jump(f, b.ret)))))
    \* ret is arg_count
    [] fn = "argument_list" ->
         LET RECURSIVE Loop(_, _)
               Loop(e, arg_count) ==
                 IF Compiler("peek_type", e, <<>>) \in {"RParen", "None"}
                 THEN [e EXCEPT !.ret = arg_count]
                 ELSE IF arg_count = 255
                 THEN Fail(e, "CompileError: too many arguments")
                 ELSE Then(Compiler("expression", e, <<>>), LAMBDA f :
                        Then(IF Compiler("peek_type", f, <<>>) \in {"RParen", "None"} THEN f
                             ELSE Compiler("expect", f, <<"Comma">>),
                             LAMBDA g : Loop(g, arg_count + 1)))
           IN Then(Loop(d, 0), LAMBDA e :
                Then(Compiler("expect", e, <<"RParen">>), LAMBDA f : [f EXCEPT !.ret = e.ret]))
    [] fn = "call" ->
         Then(Compiler("expect", d, <<"LParen">>), LAMBDA a :
             Then(Compiler("argument_list", a, <<>>), LAMBDA b : Compiler("emit_bytes", b, <<"Call", b.ret>>)))
    [] fn = "dot" ->
         LET can_assign == x[1]
         IN Then(Compiler("expect", d, <<"Dot">>), LAMBDA a : With(Compiler("advance", a, <<>>), LAMBDA b :
             IF b.ret = NoToken THEN Fail(b, "UnexpectedEof")
             ELSE IF b.ret.tok_type # "Ident" THEN Fail(b, "UnexpectedToken")
             ELSE Then(Compiler("string_constant", b, <<b.ret.value>>), LAMBDA e :
               IF Compiler("peek_type", e, <<>>) = "Equal" /\ can_assign
               THEN Then(Compiler("expression", Compiler("advance", e, <<>>), <<>>), LAMBDA f :
                      Compiler("emit_bytes", f, <<"SetProperty", e.ret>>))
               ELSE IF Compiler("peek_type", e, <<>>) = "LParen"
               THEN Then(Compiler("argument_list", Compiler("advance", e, <<>>), <<>>), LAMBDA f :
                      emit_byte(Compiler("emit_bytes", f, <<"Invoke", e.ret>>), f.ret))
               ELSE Compiler("emit_bytes", e, <<"GetProperty", e.ret>>))))
    [] fn = "this" ->
         IF d.classes = <<>>
           THEN Fail(d, "CompileError: this used outside class")
           ELSE Compiler("variable", d, <<FALSE>>)
    [] fn = "super_" ->
         IF d.classes = <<>>
           THEN Fail(d, "CompileError: super used outside class")
           ELSE IF ~Top(d.classes).has_superclass
           THEN Fail(d, "CompileError: super used in class that is not a subclass")
           ELSE Then(Compiler("expect", d, <<"Super">>), LAMBDA a : Then(Compiler("expect", a, <<"Dot">>), LAMBDA b :
             With(Compiler("advance", b, <<>>), LAMBDA e :
             IF e.ret.tok_type # "Ident" THEN Fail(e, "UnexpectedToken")
             ELSE Then(Compiler("string_constant", e, <<e.ret.value>>), LAMBDA f :
               \* f.ret is named_constant
               Then(Compiler("named_variable", f, <<Ident("this"), FALSE>>), LAMBDA g :
                 Then(IF Compiler("peek_type", g, <<>>) = "LParen"
                      THEN Then(Compiler("expect", g, <<"LParen">>), LAMBDA s : Compiler("argument_list", s, <<>>))
                      ELSE [g EXCEPT !.ret = -1], LAMBDA h :
                   \* h.ret is arg_count, -1 where there is no argument list
                   Then(Compiler("named_variable", h, <<Ident("super"), FALSE>>), LAMBDA i :
                     IF h.ret >= 0
                     THEN emit_byte(Compiler("emit_bytes", i, <<"SuperInvoke", f.ret>>), h.ret)
                     ELSE Compiler("emit_bytes", i, <<"GetSuper", f.ret>>))))))))
    [] fn = "prefix" ->
         LET can_assign == x[1]
         IN LET t == Compiler("peek_type", d, <<>>)
           IN CASE t = "None" -> Fail(d, "UnexpectedEof")
                [] t = "LParen" -> Compiler("grouping", d, <<>>)
                [] t \in {"Minus", "Bang"} -> Compiler("unary", d, <<>>)
                [] t = "Num" -> Compiler("number", d, <<>>)
                [] t \in {"Nil", "True", "False"} -> Compiler("literal", d, <<>>)
                [] t = "Str" -> Compiler("string", d, <<>>)
                [] t = "Ident" -> Compiler("variable", d, <<can_assign>>)
                [] t = "This" -> Compiler("this", d, <<>>)
                [] t = "Super" -> Compiler("super_", d, <<>>)
                [] OTHER -> Fail(d, "panic")
    [] fn = "infix" ->
         LET can_assign == x[1]
         IN LET t == Compiler("peek_type", d, <<>>)
           IN CASE t = "None" -> Fail(d, "UnexpectedEof")
                [] t \in {"Plus", "Minus", "Star", "Slash", "BangEq", "EqualEq",
                          "Less", "LessEq", "Greater", "GreaterEq"} -> Compiler("binary", d, <<>>)
                [] t = "And" -> Compiler("and", d, <<>>)
                [] t = "Or" -> Compiler("or", d, <<>>)
                [] t = "LParen" -> Compiler("call", d, <<>>)
                [] t = "Dot" -> Compiler("dot", d, <<can_assign>>)
                [] OTHER -> Fail(d, "panic")
    [] fn = "parse_precedence" ->
         LET prec == x[1]
         IN LET can_assign == prec <= precedence("Equal")
               RECURSIVE Loop(_)
               Loop(e) ==
                 IF e.err = "" /\ Compiler("peek_type", e, <<>>) # "None"
                      /\ prec <= precedence(Compiler("peek_type", e, <<>>))
                 THEN Loop(Compiler("infix", e, <<can_assign>>))
                 ELSE e
           IN Then(Loop(Compiler("prefix", d, <<can_assign>>)), LAMBDA e :
                IF Compiler("peek_type", e, <<>>) = "Equal" /\ can_assign
                THEN Fail(e, "UnexpectedToken") ELSE e)
    \* ------------------------------------------------------- statements
    [] fn = "print_statement" ->
         Then(Compiler("expect", d, <<"Print">>), LAMBDA a : Then(Compiler("expression", a, <<>>), LAMBDA b :
             Then(Compiler("expect", b, <<"Semicolon">>), LAMBDA e : emit_byte(e, "Print"))))
    \* Every turn of the loop of block takes a token or fails, so the loop
    \* has at most as many turns as there are tokens; a turn after the break
    \* changes nothing.  Loop(e, n, k) is n turns: the first k, then 2k, then
    \* 4k ..., each group halved (k = 0), to keep the evaluation shallow.
    [] fn = "block" ->
         LET RECURSIVE Loop(_, _, _)
               Loop(e, n, k) ==
                 IF n = 0 \/ e.err # "" \/ Compiler("peek_type", e, <<>>) \in {"RBrace", "None"}
                 THEN e
                 ELSE CASE n = 1 -> Compiler("declaration", e, <<>>)
                        [] n > 1 /\ k = 0 -> Loop(Loop(e, n \div 2, 0), n - n \div 2, 0)
                        [] n > 1 /\ k >= n -> Loop(e, n, 0)
                        [] n > 1 /\ k > 0 /\ k < n -> Loop(Loop(e, k, 0), n - k, 2 * k)
           IN Then(Compiler("expect", d, <<"LBrace">>), LAMBDA a :
                Then(Loop(a, Len(a.scanner), 1), LAMBDA b : Compiler("expect", b, <<"RBrace">>)))
    [] fn = "if_statement" ->
         Then(Compiler("expect", d, <<"If">>), LAMBDA a : Then(Compiler("expect", a, <<"LParen">>), LAMBDA b :
           Then(Compiler("expression", b, <<>>), LAMBDA e : Then(Compiler("expect", e, <<"RParen">>), LAMBDA f :
           With(emit_jump(f, "JumpIfFalse"), LAMBDA g :
             \* g.ret is then_jump, i.ret else_jump
             Then(Mark(Compiler("statement", emit_byte(g, "Pop"), <<>>)), LAMBDA h :
             With(emit_jump(h, "Jump"), LAMBDA i :
             Then(patch_jump(i, g.ret), LAMBDA j :
             Then(IF Compiler("peek_type", j, <<>>) = "Else"
                  THEN Mark(Compiler("statement", Compiler("advance", emit_byte(j, "Pop"), <<>>), <<>>))
                  ELSE emit_byte(j, "Pop"),
                  LAMBDA l : patch_jump(l, i.ret))))))))))
    [] fn = "while_statement" ->
         Then(Compiler("expect", d, <<"While">>), LAMBDA a :
             \* Len(a.function.code) is loop_start, g.ret exit_jump
             Then(Compiler("expect", a, <<"LParen">>), LAMBDA b : Then(Compiler("expression", b, <<>>), LAMBDA e :
             Then(Compiler("expect", e, <<"RParen">>), LAMBDA f :
             With(emit_jump(f, "JumpIfFalse"), LAMBDA g :
               Then(Mark(Compiler("statement", emit_byte(g, "Pop"), <<>>)), LAMBDA h :
                 Then(Compiler("emit_loop", h, <<Len(a.function.code)>>), LAMBDA i :
                   Then(patch_jump(i, g.ret), LAMBDA j :
                     emit_byte(j, "Pop")))))))))
    [] fn = "return_statement" ->
         IF d.fun_type = "Script" THEN Fail(d, "CompileError: invalid return")
           ELSE Then(Compiler("expect", d, <<"Return">>), LAMBDA a :
             Then(IF Compiler("peek_type", a, <<>>) = "Semicolon" THEN Compiler("emit_return", a, <<>>)
                  ELSE IF a.fun_type = "Initializer"
                  THEN Fail(a, "CompileError: cannot return value from init")
                  ELSE Then(Compiler("expression", a, <<>>), LAMBDA b : emit_byte(b, "Return")),
                  LAMBDA e : Compiler("expect", e, <<"Semicolon">>)))
    [] fn = "expr_statement" ->
         Then(Compiler("expression", d, <<>>), LAMBDA a : Then(Compiler("expect", a, <<"Semicolon">>), LAMBDA b :
             emit_byte(b, "Pop")))
    [] fn = "statement" ->
         LET t == Compiler("peek_type", d, <<>>)
           IN CASE t = "Print" -> Compiler("print_statement", d, <<>>)
                [] t = "LBrace" -> Then(Compiler("block", begin_scope(d), <<>>), end_scope)
                [] t = "If" -> Compiler("if_statement", d, <<>>)
                [] t = "While" -> Compiler("while_statement", d, <<>>)
                [] t = "Return" -> Compiler("return_statement", d, <<>>)
                [] OTHER -> Compiler("expr_statement", d, <<>>)
    \* ----------------------------------------------------- declarations
    [] fn = "parse_parameters" ->
         LET RECURSIVE Loop(_)
               Loop(e) ==
                 IF Compiler("peek_type", e, <<>>) \in {"RParen", "None"} THEN e
                 ELSE IF e.function.arity + 1 > 255
                 THEN Fail([e EXCEPT !.function.arity = @ + 1],
                           "CompileError: parameters exceed limit of 255")
                 ELSE Then(Compiler("parse_variable", [e EXCEPT !.function.arity = @ + 1], <<>>),
                           LAMBDA g :
                        Then(IF Compiler("peek_type", g, <<>>) \in {"RParen", "None"}
                             THEN Compiler("define_variable", g, <<g.ret>>)
                             ELSE Compiler("expect", Compiler("define_variable", g, <<g.ret>>), <<"Comma">>), Loop))
           IN Then(Compiler("expect", d, <<"LParen">>), LAMBDA a :
                Then(Loop(a), LAMBDA b : Compiler("expect", b, <<"RParen">>)))
    \* with_function_ctx, called with the closure of function: the context of
    \* the enclosing function stays in a while the body is compiled.  ret is
    \* the ObjClosure compiled.
    [] fn = "with_function_ctx" ->
         LET name == x[1]
             fun_type == x[2]
         IN With(Compiler("make_string", d, <<name>>), LAMBDA a :
             IF fun_type \notin {"Function", "Method", "Initializer"}
             THEN Fail(a, "panic")
             ELSE Then(Then(Compiler("parse_parameters", begin_scope(
                         [a EXCEPT
                            !.scope_depth = 0,
                            !.fun_type = fun_type,
                            !.function = [arity |-> 0, code |-> <<>>,
                                          constants |-> <<>>, name |-> <<a.ret>>],
                            !.locals_stack = Append(@, a.locals),
                            !.locals = <<Local(IF fun_type = "Function" THEN ""
                                               ELSE "this", 0)>>,
                            !.upvalues_stack = Append(@, a.upvalues),
                            !.upvalues = <<>>]), <<>>), LAMBDA s : Compiler("block", s, <<>>)), LAMBDA b :
                    With(Compiler("emit_return", [b EXCEPT !.scope_depth = a.scope_depth,
                                               !.locals = Top(b.locals_stack),
                                               !.locals_stack = Front(@)], <<>>),
                         LAMBDA e : [e EXCEPT !.fun_type = a.fun_type,
                                              !.function = a.function,
                                              !.ret = e.function])))
    [] fn = "function" ->
         LET name == x[1]
             fun_type == x[2]
         IN LET RECURSIVE Emit(_, _)
               Emit(e, upvalues) ==
                 IF upvalues = <<>> THEN e
                 ELSE Emit(Compiler("emit_bytes", e, <<IF Head(upvalues).is_local THEN 1 ELSE 0, Head(upvalues).index>>), Tail(upvalues))
           IN Then(Compiler("with_function_ctx", d, <<name, fun_type>>), LAMBDA a :
                \* a.ret is closure_obj
                Then(Compiler("emit_closure", [a EXCEPT !.heap =
                          Append(@, [kind |-> "Closure", function |-> a.ret,
                                     upvalue_count |-> Len(a.upvalues),
                                     is_marked |-> FALSE])], <<Obj(Len(a.heap) + 1)>>), LAMBDA e :
                  \* the entry in log: what is emitted after Closure, and how
                  \* many locals the function around it has there
                  Emit([e EXCEPT !.upvalues = Top(e.upvalues_stack),
                                 !.upvalues_stack = Front(@),
                                 !.log = Append(@, [op |-> "function", name |-> name,
                                                    upvalue_count |-> Len(a.upvalues),
                                                    upvalues |-> e.upvalues,
                                                    locals |-> Len(e.locals)])],
                       e.upvalues)))
    [] fn = "var_declaration" ->
         Then(Compiler("expect", d, <<"Var">>), LAMBDA a : Then(Compiler("parse_variable", a, <<>>), LAMBDA b :
             \* b.ret is const_idx
             Then(IF Compiler("peek_type", b, <<>>) = "Equal" THEN Compiler("expression", Compiler("advance", b, <<>>), <<>>)
                  ELSE emit_byte(b, "Nil"), LAMBDA e :
               Then(Compiler("expect", e, <<"Semicolon">>), LAMBDA f :
                 Compiler("define_variable", f, <<b.ret>>)))))
    [] fn = "fun_declaration" ->
         Then(Compiler("expect", d, <<"Fun">>), LAMBDA a : Then(Compiler("parse_function_name", a, <<>>), LAMBDA b :
             Then(Compiler("function", Compiler("mark_initialized", b, <<>>), <<b.ret.name, "Function">>),
                  LAMBDA e : Compiler("define_variable", e, <<b.ret.global>>))))
    [] fn = "method" ->
         With(Compiler("advance", d, <<>>), LAMBDA a : LET id == a.ret.value IN
             IF a.ret.tok_type # "Ident" THEN Fail(a, "UnexpectedToken")
             ELSE Then(Compiler("string_constant", a, <<id>>), LAMBDA b :
                    \* b.ret is named_constant
                    Then(Compiler("function", b, <<id, IF id = INIT_STRING THEN "Initializer"
                                         ELSE "Method">>), LAMBDA e :
                      Compiler("emit_bytes", e, <<"Method", b.ret>>))))
    [] fn = "class_declaration" ->
         LET superclass(i, id) ==
                 With(Compiler("advance", i, <<>>), LAMBDA j :
                   IF Compiler("peek_type", j, <<>>) # "Ident"
                   THEN Fail(j, "CompileError: missing superclass name")
                   ELSE Then(Compiler("variable", j, <<FALSE>>), LAMBDA k :
                     IF id = Head(j.scanner).value
                     THEN Fail(k, "CompileError: class cannot inherit from itself")
                     ELSE Then(add_local(begin_scope(k), "super"), LAMBDA l :
                       Then(Compiler("named_variable", Compiler("define_variable", l, <<0>>), <<Ident(id), FALSE>>),
                            LAMBDA m :
                         [emit_byte(m, "Inherit")
                            EXCEPT !.classes[Len(m.classes)].has_superclass = TRUE]))))
               RECURSIVE Methods(_)
               Methods(i) ==
                 IF i.err # "" \/ Compiler("peek_type", i, <<>>) \in {"RBrace", "None"} THEN i
                 ELSE Methods(Compiler("method", i, <<>>))
           IN Then(Compiler("expect", d, <<"Class">>), LAMBDA a : With(Compiler("advance", a, <<>>), LAMBDA b :
                LET id == b.ret.value IN
                IF b.ret.tok_type # "Ident" THEN Fail(b, "UnexpectedToken")
                ELSE Then(declare_variable(b, id), LAMBDA e :
                Then(Compiler("string_constant", e, <<id>>), LAMBDA f :
                \* f.ret is named_constant
                With([Compiler("define_variable", Compiler("emit_bytes", f, <<"Class", f.ret>>), <<f.ret>>)
                        EXCEPT !.classes = Append(@, [has_superclass |-> FALSE])],
                     LAMBDA h :
                Then(IF Compiler("peek_type", h, <<>>) = "Less" THEN superclass(h, id) ELSE h, LAMBDA i :
                Then(Compiler("named_variable", i, <<Ident(id), FALSE>>), LAMBDA j :
                Then(Compiler("expect", j, <<"LBrace">>), LAMBDA k : Then(Methods(k), LAMBDA l :
                Then(Compiler("expect", l, <<"RBrace">>), LAMBDA m :
                  With(IF Top(m.classes).has_superclass
                       THEN end_scope(emit_byte(m, "Pop")) ELSE emit_byte(m, "Pop"),
                       LAMBDA o : [o EXCEPT !.classes = Front(@)])))))))))))

declaration(c) == [Compiler("declaration", c, <<>>) EXCEPT !.ret = 0]

(***************************************************************************)
(* The compiler resolving names inside nested functions.                   *)
(***************************************************************************)
\* The programs compiled, as the scanner's tokens.
\* The source { var v1; ... var vn; } and the source of n statements 1;
LocalsSource(n) ==
  <<"LBrace">> \o [i \in 1..3 * n |->
                     CASE i % 3 = 1 -> "Var"
                       [] i % 3 = 2 -> "v" \o ToString((i + 1) \div 3)
                       [] OTHER -> "Semicolon"] \o <<"RBrace">>
ConstantsSource(n) == [i \in 1..2 * n |-> IF i % 2 = 1 THEN "1" ELSE "Semicolon"]

Sources ==
  [\* { var a = a; }
   selfinit |->
      <<"LBrace", "Var", "a", "Equal", "a", "Semicolon", "RBrace">>,
   \* { var a = 1; { var a = a; } }
   shadowinit |->
      <<"LBrace", "Var", "a", "Equal", "1", "Semicolon", "LBrace", "Var",
        "a", "Equal", "a", "Semicolon", "RBrace", "RBrace">>,
   \* { var a; var a; }
   redeclare |->
      <<"LBrace", "Var", "a", "Semicolon", "Var", "a", "Semicolon", "RBrace">>,
   \* { var a = 1; { var a = 2; print a; } print a; }
   shadow |->
      <<"LBrace", "Var", "a", "Equal", "1", "Semicolon", "LBrace", "Var",
        "a", "Equal", "2", "Semicolon", "Print", "a", "Semicolon", "RBrace",
        "Print", "a", "Semicolon", "RBrace">>,
   \* fun f(a) { var a; }
   param |->
      <<"Fun", "f", "LParen", "a", "RParen", "LBrace", "Var", "a",
        "Semicolon", "RBrace">>,
   \* fun f(a) { { var a = 2; print a; } print a; }
   paramshadow |->
      <<"Fun", "f", "LParen", "a", "RParen", "LBrace", "LBrace", "Var", "a",
        "Equal", "2", "Semicolon", "Print", "a", "Semicolon", "RBrace",
        "Print", "a", "Semicolon", "RBrace">>,
   \* var a = 1; var a = 2; print a; { var b = a; print b; }
   globals |->
      <<"Var", "a", "Equal", "1", "Semicolon", "Var", "a", "Equal", "2",
        "Semicolon", "Print", "a", "Semicolon", "LBrace", "Var", "b",
        "Equal", "a", "Semicolon", "Print", "b", "Semicolon", "RBrace">>,
   \* { } { var a; { } }
   empty |->
      <<"LBrace", "RBrace", "LBrace", "Var", "a", "Semicolon", "LBrace",
        "RBrace", "RBrace">>,
   \* { var a = 1; var b = 2; fun f() { print a; } { } }
   capture |->
      <<"LBrace", "Var", "a", "Equal", "1", "Semicolon", "Var", "b", "Equal",
        "2", "Semicolon", "Fun", "f", "LParen", "RParen", "LBrace", "Print",
        "a", "Semicolon", "RBrace", "LBrace", "RBrace", "RBrace">>,
   \* fun g() { var a; { var b; var c; fun h() { c = 1; } } }
   inner |->
      <<"Fun", "g", "LParen", "RParen", "LBrace", "Var", "a", "Semicolon",
        "LBrace", "Var", "b", "Semicolon", "Var", "c", "Semicolon", "Fun",
        "h", "LParen", "RParen", "LBrace", "c", "Equal", "1", "Semicolon",
        "RBrace", "RBrace", "RBrace">>,
   \* f(a, b);
   call |->
      <<"f", "LParen", "a", "Comma", "b", "RParen", "Semicolon">>,
   \* print f(a, b);
   printcall |->
      <<"Print", "f", "LParen", "a", "Comma", "b", "RParen", "Semicolon">>,
   \* x = f(a, b);
   assigncall |->
      <<"x", "Equal", "f", "LParen", "a", "Comma", "b", "RParen",
        "Semicolon">>,
   \* 1 == f(a, b);
   eqcall |->
      <<"1", "EqualEq", "f", "LParen", "a", "Comma", "b", "RParen",
        "Semicolon">>,
   \* 1 < f(a, b);
   lesscall |->
      <<"1", "Less", "f", "LParen", "a", "Comma", "b", "RParen", "Semicolon">>,
   \* 1 + f(a, b);
   addcall |->
      <<"1", "Plus", "f", "LParen", "a", "Comma", "b", "RParen", "Semicolon">>,
   \* 2 * f(a, b);
   mulcall |->
      <<"2", "Star", "f", "LParen", "a", "Comma", "b", "RParen", "Semicolon">>,
   \* -f(a, b);
   negcall |->
      <<"Minus", "f", "LParen", "a", "Comma", "b", "RParen", "Semicolon">>,
   \* f(a, b)(a, b);
   callcall |->
      <<"f", "LParen", "a", "Comma", "b", "RParen", "LParen", "a", "Comma",
        "b", "RParen", "Semicolon">>,
   \* o.m(a, b);
   invoke |->
      <<"o", "Dot", "m", "LParen", "a", "Comma", "b", "RParen", "Semicolon">>,
   \* -o.p * 2;
   property |->
      <<"Minus", "o", "Dot", "p", "Star", "2", "Semicolon">>,
   \* print this;
   thistop |->
      <<"Print", "This", "Semicolon">>,
   \* fun f() { return this; }
   thisfun |->
      <<"Fun", "f", "LParen", "RParen", "LBrace", "Return", "This",
        "Semicolon", "RBrace">>,
   \* super.m();
   supertop |->
      <<"Super", "Dot", "m", "LParen", "RParen", "Semicolon">>,
   \* class A { m() { super.m(); } }
   superbase |->
      <<"Class", "A", "LBrace", "m", "LParen", "RParen", "LBrace", "Super",
        "Dot", "m", "LParen", "RParen", "Semicolon", "RBrace", "RBrace">>,
   \* class A { } print this;
   thisafter |->
      <<"Class", "A", "LBrace", "RBrace", "Print", "This", "Semicolon">>,
   \* class A { } class B < A { } super.m();
   superafter |->
      <<"Class", "A", "LBrace", "RBrace", "Class", "B", "Less", "A",
        "LBrace", "RBrace", "Super", "Dot", "m", "LParen", "RParen",
        "Semicolon">>,
   \* return;
   returntop |->
      <<"Return", "Semicolon">>,
   \* return 1;
   returnvalue |->
      <<"Return", "1", "Semicolon">>,
   \* class A { init() { return 1; } }
   initvalue |->
      <<"Class", "A", "LBrace", "init", "LParen", "RParen", "LBrace",
        "Return", "1", "Semicolon", "RBrace", "RBrace">>,
   \* class A < A { }
   selfinherit |->
      <<"Class", "A", "Less", "A", "LBrace", "RBrace">>,
   \* class A { init() { return; } m() { return this; } }
   method |->
      <<"Class", "A", "LBrace", "init", "LParen", "RParen", "LBrace",
        "Return", "Semicolon", "RBrace", "m", "LParen", "RParen", "LBrace",
        "Return", "This", "Semicolon", "RBrace", "RBrace">>,
   \* class A { m() { } } class B < A { m() { super.m(); return super.m; } }
   subclass |->
      <<"Class", "A", "LBrace", "m", "LParen", "RParen", "LBrace", "RBrace",
        "RBrace", "Class", "B", "Less", "A", "LBrace", "m", "LParen",
        "RParen", "LBrace", "Super", "Dot", "m", "LParen", "RParen",
        "Semicolon", "Return", "Super", "Dot", "m", "Semicolon", "RBrace",
        "RBrace">>,
   \* if (true) print 1; else print 2;
   ifelse |->
      <<"If", "LParen", "True", "RParen", "Print", "1", "Semicolon", "Else",
        "Print", "2", "Semicolon">>,
   \* if (nil) print 1; else { print 2; }
   ifnil |->
      <<"If", "LParen", "Nil", "RParen", "Print", "1", "Semicolon", "Else",
        "LBrace", "Print", "2", "Semicolon", "RBrace">>,
   \* if (false) print 1; print 2;
   iffalse |->
      <<"If", "LParen", "False", "RParen", "Print", "1", "Semicolon",
        "Print", "2", "Semicolon">>,
   \* if (0) { print 1; } print 2;
   ifzero |->
      <<"If", "LParen", "0", "RParen", "LBrace", "Print", "1", "Semicolon",
        "RBrace", "Print", "2", "Semicolon">>,
   \* var x = true; while (x) x = false; print 3;
   loop |->
      <<"Var", "x", "Equal", "True", "Semicolon", "While", "LParen", "x",
        "RParen", "x", "Equal", "False", "Semicolon", "Print", "3",
        "Semicolon">>,
   \* while (false) print 1; print 2;
   never |->
      <<"While", "LParen", "False", "RParen", "Print", "1", "Semicolon",
        "Print", "2", "Semicolon">>,
   \* var x = 1; while (x == 1) { if (x == 1) x = 2; else x = 3; }
   ifwhile |->
      <<"Var", "x", "Equal", "1", "Semicolon", "While", "LParen", "x",
        "EqualEq", "1", "RParen", "LBrace", "If", "LParen", "x", "EqualEq",
        "1", "RParen", "x", "Equal", "2", "Semicolon", "Else", "x", "Equal",
        "3", "Semicolon", "RBrace">>,
   \* { var a = 1; var b; print a; { var c = a; c = 3; print c; } b = 2; } print 0;
   locals |->
      <<"LBrace", "Var", "a", "Equal", "1", "Semicolon", "Var", "b",
        "Semicolon", "Print", "a", "Semicolon", "LBrace", "Var", "c",
        "Equal", "a", "Semicolon", "c", "Equal", "3", "Semicolon", "Print",
        "c", "Semicolon", "RBrace", "b", "Equal", "2", "Semicolon", "RBrace",
        "Print", "0", "Semicolon">>,
   \* { var a = true; while (a) { var b = 1; a = false; } if (a) { var c; } else { var d = 2; print d; } }
   localjump |->
      <<"LBrace", "Var", "a", "Equal", "True", "Semicolon", "While",
        "LParen", "a", "RParen", "LBrace", "Var", "b", "Equal", "1",
        "Semicolon", "a", "Equal", "False", "Semicolon", "RBrace", "If",
        "LParen", "a", "RParen", "LBrace", "Var", "c", "Semicolon", "RBrace",
        "Else", "LBrace", "Var", "d", "Equal", "2", "Semicolon", "Print",
        "d", "Semicolon", "RBrace", "RBrace">>,
   \* { var a = 1; fun f() { print a; } var b = 2; print b; }
   closure |->
      <<"LBrace", "Var", "a", "Equal", "1", "Semicolon", "Fun", "f",
        "LParen", "RParen", "LBrace", "Print", "a", "Semicolon", "RBrace",
        "Var", "b", "Equal", "2", "Semicolon", "Print", "b", "Semicolon",
        "RBrace">>,
   \* { var a; var b; fun g() { fun h() { b = 1; } } }
   chain |->
      <<"LBrace", "Var", "a", "Semicolon", "Var", "b", "Semicolon", "Fun",
        "g", "LParen", "RParen", "LBrace", "Fun", "h", "LParen", "RParen",
        "LBrace", "b", "Equal", "1", "Semicolon", "RBrace", "RBrace",
        "RBrace">>,
   \* fun g() { var b; fun h() { fun k() { b; } } }
   through |->
      <<"Fun", "g", "LParen", "RParen", "LBrace", "Var", "b", "Semicolon",
        "Fun", "h", "LParen", "RParen", "LBrace", "Fun", "k", "LParen",
        "RParen", "LBrace", "b", "Semicolon", "RBrace", "RBrace", "RBrace">>,
   \* -a + b;
   negadd |->
      <<"Minus", "a", "Plus", "b", "Semicolon">>,
   \* 1 + 2 * 3;
   addmul |->
      <<"1", "Plus", "2", "Star", "3", "Semicolon">>,
   \* 3 - 2 - 1;
   subsub |->
      <<"3", "Minus", "2", "Minus", "1", "Semicolon">>,
   \* a + b = c;
   addassign |->
      <<"a", "Plus", "b", "Equal", "c", "Semicolon">>,
   \* -a = 1;
   negassign |->
      <<"Minus", "a", "Equal", "1", "Semicolon">>,
   \* a = b = 1;
   assign |->
      <<"a", "Equal", "b", "Equal", "1", "Semicolon">>,
   \* class A { m() { } } class B < A { m() { } } print 1;
   classes |->
      <<"Class", "A", "LBrace", "m", "LParen", "RParen", "LBrace", "RBrace",
        "RBrace", "Class", "B", "Less", "A", "LBrace", "m", "LParen",
        "RParen", "LBrace", "RBrace", "RBrace", "Print", "1", "Semicolon">>,
   \* { class A { } class B < A { n() { } } var z = 1; print z; }
   localclass |->
      <<"LBrace", "Class", "A", "LBrace", "RBrace", "Class", "B", "Less",
        "A", "LBrace", "n", "LParen", "RParen", "LBrace", "RBrace", "RBrace",
        "Var", "z", "Equal", "1", "Semicolon", "Print", "z", "Semicolon",
        "RBrace">>,
   \* { var v1; ... var v255; }
   locals255 |-> LocalsSource(U8_MAX),
   \* { var v1; ... var v256; }
   locals256 |-> LocalsSource(U8_MAX + 1),
   \* 1; 1; ... 256 times
   constants256 |-> ConstantsSource(U8_MAX + 1),
   \* 1; 1; ... 257 times
   constants257 |-> ConstantsSource(U8_MAX + 2)]

CompilerInit ==
  /\ prog \in {"nested"} \cup DOMAIN Sources
  /\ compiler \in IF prog = "nested" THEN NestedCompilers \cup {FullCompiler}
                  ELSE {[CompilerNew EXCEPT !.scanner = Scan(Sources[prog])]}
  /\ functions = <<>>
  /\ debug_assertions \in BOOLEAN
  /\ status = "compile"
  /\ stack = EmptyMap /\ sp = 0 /\ frames = <<>>
  /\ heap = EmptyMap /\ globals = EmptyMap
  /\ open_upvalues = <<>> /\ gray_stack = <<>>
  /\ bytes_allocated = 0 /\ next_gc = INITIAL_GC_THRESHOLD
  /\ output = <<>> /\ fresh = 0 /\ gc = NoGc

\* An identifier is met in the body of the function being compiled.
NamedVariable ==
  /\ status = "compile" /\ prog = "nested"
  /\ \E name \in Names \cup {"this", "v" \o ToString(U8_MAX)} :
       LET r == named_variable([compiler EXCEPT !.calls = <<>>, !.log = <<>>],
                               name)
       IN /\ compiler' = r
          /\ status' = IF r.err # "" THEN r.err ELSE "compile"
  /\ UNCHANGED <<prog, functions, debug_assertions, stack, sp, frames, heap,
                 globals, open_upvalues, gray_stack, bytes_allocated, next_gc,
                 output, fresh, gc>>

\* Compiler::compile, one turn of its loop at a time.  When it returns Ok,
\* lib.rs interpret hands compiler.function and compiler.heap to the VM.
Compile ==
  /\ status = "compile" /\ prog # "nested"
  /\ IF compiler.scanner = <<>>
     THEN compiler' = compiler /\ status' = "compiled"
     ELSE LET r == declaration([compiler EXCEPT !.calls = <<>>, !.log = <<>>])
          \* resolved is what one named_variable returned: it says nothing
          \* once the declaration around it is over
          IN /\ compiler' = [r EXCEPT !.resolved = CompilerNew.resolved]
             /\ status' = IF r.err # "" THEN r.err ELSE "compile"
  /\ UNCHANGED <<prog, functions, debug_assertions, stack, sp, frames, heap,
                 globals, open_upvalues, gray_stack, bytes_allocated, next_gc,
                 output, fresh, gc>>

CompilerNext == NamedVariable \/ Compile

CompilerSpec == CompilerInit /\ [][CompilerNext]_vars

(***************************************************************************)
(* lib.rs interpret: the source is compiled, Vm::new takes the compiler's  *)
(* heap, and the machine interprets the compiler's function.  The scripts  *)
(* are sources that compile; the machine runs what the compiler wrote.     *)
(***************************************************************************)
Scripts ==
  {"ifelse", "ifnil", "iffalse", "ifzero", "loop", "never", "ifwhile",
   "locals", "localjump", "closure", "chain", "through", "globals", "shadow",
   "empty", "classes", "localclass"}

\* The handles of the closures in the compiler's heap, in the order of their
\* insertion; the function of the k-th is function k + 1 of the machine.
ClosureHandles(h) == SetToSeq({i \in 1..Len(h) : h[i].kind = "Closure"})
FnNumber(h, i) ==
  1 + CHOOSE k \in 1..Len(ClosureHandles(h)) : ClosureHandles(h)[k] = i
\* The constants q of a chunk, each with what its handle holds in heap h.
Constants(h, q) ==
  [i \in 1..Len(q) |->
     IF q[i].t = "Number" THEN CNum(q[i].n)
     ELSE IF h[q[i].h].kind = "Str" THEN CStr(h[q[i].h].value)
     ELSE CFn(FnNumber(h, q[i].h))]
\* compiler.function and the functions in compiler.heap
Compiled(c) ==
  <<Fn("", 0, 0, c.function.code, Constants(c.heap, c.function.constants))>> \o
  [k \in 1..Len(ClosureHandles(c.heap)) |->
     LET o == c.heap[ClosureHandles(c.heap)[k]]
     IN Fn(c.heap[o.function.name[1]].value, o.function.arity, o.upvalue_count,
           o.function.code, Constants(c.heap, o.function.constants))]

ScriptInit == CompilerInit /\ prog \in Scripts

\* let mut vm = Vm::new(compiler.heap)
VmNew ==
  /\ status = "compiled"
  /\ functions' = Compiled(compiler)
  /\ heap' = CompiledHeap'
  /\ fresh' = FirstFree'
  /\ status' = "new"
  /\ UNCHANGED <<prog, compiler, debug_assertions, stack, sp, frames, globals,
                 open_upvalues, gray_stack, bytes_allocated, next_gc, output, gc>>

JumpIfFalse == Opcode = "JumpIfFalse" /\ Set(op_JumpIfFalse(Fetched), "run")
Jump == Opcode = "Jump" /\ Set(op_Jump(Fetched), "run")
Loop == Opcode = "Loop" /\ Set(op_Loop(Fetched), "run")

ScriptNext ==
  \/ Compile \/ VmNew \/ Interpret \/ Halt
  \/ JumpIfFalse \/ Jump \/ Loop
  \/ DefineGlobal \/ GetGlobal \/ Closure
  \/ Opcode = "Constant" /\ Set(op_Constant(Fetched), "run")
  \/ Opcode = "Nil" /\ Set(op_Nil(Fetched), "run")
  \/ Opcode = "True" /\ Set(op_True(Fetched), "run")
  \/ Opcode = "False" /\ Set(op_False(Fetched), "run")
  \/ Opcode = "Equal" /\ Set(op_Equal(Fetched), "run")
  \/ Opcode = "Print" /\ \E r \in op_Print(Fetched) : Set(r, "run")
  \/ Opcode = "Pop" /\ Set(op_Pop(Fetched), "run")
  \/ Opcode = "SetGlobal" /\ Set(op_SetGlobal(Fetched), "run")
  \/ Opcode = "GetLocal" /\ Set(op_GetLocal(Fetched), "run")
  \/ Opcode = "SetLocal" /\ Set(op_SetLocal(Fetched), "run")
  \/ Opcode = "CloseUpvalue" /\ Set(op_CloseUpvalue(Fetched), "run")
  \/ Opcode = "Class" /\ \E r \in op_Class(Fetched) : Set(r, "run")
  \/ Opcode = "Method" /\ Set(op_Method(Fetched), "run")
  \/ Opcode = "Inherit" /\ Set(op_Inherit(Fetched), "run")

ScriptSpec == ScriptInit /\ [][ScriptNext]_vars

(***************************************************************************)
(* Forward jumps: emit_jump, the jumped-over code, patch_jump              *)
(* (compiler.rs 1130-1136, 495-506), as if_statement, while_statement,     *)
(* and and or use them.  The jumped-over code is written byte by byte by   *)
(* emit_byte; its length is the only thing patch_jump looks at.            *)
(***************************************************************************)
MaxPrefix == 2

\* How many bytes the jumped-over code has.
BodyLens == {0, 1, 2, 255, 256, U16_MAX - 1, U16_MAX, U16_MAX + 1, U16_MAX + 2}

JumpInit ==
  /\ prog = "jump"
  /\ \E n \in 0..MaxPrefix :
       compiler = [CompilerNew EXCEPT !.function.code = [i \in 1..n |-> "Nil"]]
  /\ functions = <<>>
  /\ debug_assertions \in BOOLEAN
  /\ status = "start"
  /\ stack = EmptyMap /\ sp = 0 /\ frames = <<>>
  /\ heap = EmptyMap /\ globals = EmptyMap
  /\ open_upvalues = <<>> /\ gray_stack = <<>>
  /\ bytes_allocated = 0 /\ next_gc = INITIAL_GC_THRESHOLD
  /\ output = <<>> /\ fresh = 0 /\ gc = NoGc

\* let else_jump = self.emit_jump(OpCode::JumpIfFalse as u8);
EmitJump ==
  /\ status = "start"
  /\ \E op \in {"Jump", "JumpIfFalse"} : compiler' = emit_jump(compiler, op)
  /\ status' = "jump"
  /\ UNCHANGED <<prog, functions, debug_assertions, stack, sp, frames, heap,
                 globals, open_upvalues, gray_stack, bytes_allocated, next_gc,
                 output, fresh, gc>>

\* The statement or operand between the jump and its target: n emit_byte.
EmitBody ==
  /\ status = "jump"
  /\ \E n \in BodyLens :
       compiler' = [compiler EXCEPT
                      !.function.code = @ \o [i \in 1..n |-> "Pop"]]
  /\ status' = "body"
  /\ UNCHANGED <<prog, functions, debug_assertions, stack, sp, frames, heap,
                 globals, open_upvalues, gray_stack, bytes_allocated, next_gc,
                 output, fresh, gc>>

\* self.patch_jump(else_jump)
PatchJump ==
  /\ status = "body"
  /\ LET r == patch_jump(compiler, compiler.ret)
     IN /\ compiler' = r
        /\ status' = IF r.err # "" THEN r.err ELSE "patched"
  /\ UNCHANGED <<prog, functions, debug_assertions, stack, sp, frames, heap,
                 globals, open_upvalues, gray_stack, bytes_allocated, next_gc,
                 output, fresh, gc>>

JumpNext == EmitJump \/ EmitBody \/ PatchJump

JumpSpec == JumpInit /\ [][JumpNext]_vars

(***************************************************************************)
(* The Heap by itself (gc.rs 50-107), driven the way tests::test_multi_mut *)
(* drives it: a Heap<Vec<usize>>.  heap is the objects set with what each  *)
(* handle points to.  remove takes the handle out of the set and does not  *)
(* free its Box, so Box::new never returns a removed handle again.         *)
(***************************************************************************)
MaxHandles == 2
MaxVec == 4

Some(v) == [some |-> TRUE, value |-> v]
None == [some |-> FALSE]

\* Heap::insert: [objects, handle]
Heap_insert(objects, ptr, value) ==
  [objects |-> Put(objects, ptr, value), handle |-> ptr]

Heap_contains(objects, handle) == handle \in DOMAIN objects

Heap_get(objects, handle) ==
  IF Heap_contains(objects, handle) THEN Some(objects[handle]) ELSE None

Heap_get_mut(objects, handle) ==
  IF Heap_contains(objects, handle) THEN Some(objects[handle]) ELSE None

\* Heap::remove: [objects, panic]; the assertion is compiled in a build with
\* debug assertions only, and is evaluated after the HashSet::remove.
Heap_remove(objects, handle) ==
  LET res == handle \in DOMAIN objects
  IN [objects |-> Take(objects, handle),
      panic |-> debug_assertions /\ ~(~res)]

HeapInit ==
  /\ prog = "heap"
  /\ compiler = CompilerNew
  /\ functions = <<>>
  /\ debug_assertions \in BOOLEAN
  /\ status = [op |-> "default", panic |-> FALSE]
  /\ stack = EmptyMap /\ sp = 0 /\ frames = <<>>
  /\ heap = EmptyMap /\ globals = EmptyMap
  /\ open_upvalues = <<>> /\ gray_stack = <<>>
  /\ bytes_allocated = 0 /\ next_gc = INITIAL_GC_THRESHOLD
  /\ output = <<>> /\ fresh = 0 /\ gc = NoGc

\* One call on the heap, with any handle insert has ever returned.
HeapNext ==
  /\ ~status.panic
  /\ \/ \E value \in {<<>>, <<1, 2, 3>>} :
          /\ fresh < MaxHandles
          /\ LET r == Heap_insert(heap, fresh, value)
             IN /\ heap' = r.objects
                /\ status' = [op |-> "insert", handle |-> r.handle,
                              value |-> value, before |-> heap, panic |-> FALSE]
          /\ fresh' = fresh + 1
     \/ \E handle \in 0..(fresh - 1) :
          /\ status' = [op |-> "contains", handle |-> handle,
                        ret |-> Heap_contains(heap, handle), before |-> heap,
                        panic |-> FALSE]
          /\ UNCHANGED <<heap, fresh>>
     \/ \E handle \in 0..(fresh - 1) :
          /\ status' = [op |-> "get", handle |-> handle,
                        ret |-> Heap_get(heap, handle), before |-> heap,
                        panic |-> FALSE]
          /\ UNCHANGED <<heap, fresh>>
     \* let a = heap.get_mut(&handle); a.push(n) where a is Some
     \/ \E handle \in 0..(fresh - 1), n \in {4, 5} :
          LET a == Heap_get_mut(heap, handle)
          IN /\ a.some => Len(a.value) < MaxVec
             /\ heap' = IF a.some THEN [heap EXCEPT ![handle] = Append(a.value, n)]
                        ELSE heap
             /\ status' = [op |-> "get_mut", handle |-> handle, ret |-> a,
                           value |-> n, before |-> heap, panic |-> FALSE]
             /\ fresh' = fresh
     \/ \E handle \in 0..(fresh - 1) :
          LET r == Heap_remove(heap, handle)
          IN /\ heap' = r.objects
             /\ status' = [op |-> "remove", handle |-> handle,
                           before |-> heap, panic |-> r.panic]
             /\ fresh' = fresh
  /\ UNCHANGED <<prog, compiler, functions, debug_assertions, stack, sp, frames,
                 globals, open_upvalues, gray_stack, bytes_allocated, next_gc,
                 output, gc>>

HeapSpec == HeapInit /\ [][HeapNext]_vars

\* C19: when resolve_upvalue has resolved a name to the local in slot idx of
\* an enclosing function (the owner), that local is marked is_captured, the
\* function immediately inside the owner has the upvalue (is_local, idx),
\* each function further in, the current one included, has the upvalue (not
\* is_local, the position of the binding in the list of the function that
\* encloses it), and the index returned is the position of the binding in the
\* current function's list.
C19_UpvalueChain ==
  compiler.resolved.kind = "upvalue" =>
    LET name == compiler.resolved.name
        n == Len(compiler.locals_stack)
        Holds(i) == resolve_local_with(name, compiler.locals_stack[i]).some
        owner == CHOOSE i \in 1..n : Holds(i) /\ \A k \in (i + 1)..n : ~Holds(k)
        idx == resolve_local_with(name, compiler.locals_stack[owner]).idx
        \* the upvalue list of the function j levels inside the owner
        List(j) == IF owner + j <= n THEN compiler.upvalues_stack[owner + j]
                   ELSE compiler.upvalues
        Position(list, u) ==
          IF \E k \in 1..Len(list) : list[k] = u
          THEN (CHOOSE k \in 1..Len(list) : list[k] = u) - 1 ELSE -1
        RECURSIVE Binding(_)
        Binding(j) ==
          IF j = 1 THEN Position(List(1), Upvalue(TRUE, idx))
          ELSE IF Binding(j - 1) = -1 THEN -1
          ELSE Position(List(j), Upvalue(FALSE, Binding(j - 1)))
    IN /\ compiler.locals_stack[owner][idx + 1].is_captured
       /\ Binding(n + 1 - owner) # -1
       /\ compiler.resolved.index = Binding(n + 1 - owner)

\* C20: add_upvalue returns the position of the pair in the list: of the
\* entry already there, the list unchanged, or of the entry it appends; a pair
\* not in a list of U8_MAX entries is a compile error.
C20_AddUpvalue ==
  \A c \in 1..Len(compiler.calls) :
    LET call == compiler.calls[c]
        pair == Upvalue(call.is_local, call.index)
        present == \E k \in 1..Len(call.before) : call.before[k] = pair
    IN IF present
       THEN /\ call.err = "" /\ call.after = call.before
            /\ call.ret + 1 \in 1..Len(call.before)
            /\ call.before[call.ret + 1] = pair
       ELSE IF Len(call.before) >= U8_MAX
       THEN call.err # "" /\ call.after = call.before
       ELSE /\ call.err = "" /\ call.after = Append(call.before, pair)
            /\ call.ret = Len(call.before)

\* C21: within one function, resolving a name whose innermost local of that
\* name is still uninitialized (depth -1) is a compile error and any other
\* local name resolves to the innermost local of that name; declaring a name
\* that a local of the scope being compiled already has is a compile error
\* that adds no local, and declaring a name that only locals of enclosing
\* scopes have succeeds and adds the local, uninitialized.
C21_Scoping ==
  \A k \in 1..Len(compiler.log) :
    LET e == compiler.log[k]
        hits == {i \in 1..Len(e.locals) : e.locals[i].name = e.name}
        innermost == CHOOSE i \in hits : \A j \in hits : j <= i
    IN /\ e.op = "named_variable" /\ hits # {} =>
            IF e.locals[innermost].depth = -1 THEN e.err = "CompileError"
            ELSE /\ e.err = ""
                 /\ e.resolved = [kind |-> "local", name |-> e.name,
                                  index |-> innermost - 1]
       /\ e.op = "declare_variable" /\ e.scope_depth > 0 /\ hits # {} =>
            IF \E i \in hits : e.locals[i].depth \in {-1, e.scope_depth}
            THEN e.err # "" /\ e.after = e.locals
            ELSE e.err = "" /\ e.after = Append(e.locals, Local(e.name, -1))

\* Compiling { var a = 1; { var a = 2; print a; } print a; }, the inner a was
\* declared beside the outer one, and a was resolved to each in its scope.
C21_Witness ==
  /\ prog = "shadow" /\ compiler.err = ""
  /\ \E k \in 1..Len(compiler.log) :
       /\ compiler.log[k].op = "declare_variable"
       /\ compiler.log[k].scope_depth = 2
       /\ compiler.log[k].locals = <<Local("", 0), Local("a", 1)>>
       /\ compiler.log[k].after =
            <<Local("", 0), Local("a", 1), Local("a", -1)>>
  /\ \E k, l \in 1..Len(compiler.log) :
       /\ k < l
       /\ compiler.log[k].op = "named_variable"
       /\ compiler.log[k].resolved = [kind |-> "local", name |-> "a", index |-> 2]
       /\ compiler.log[l].op = "named_variable"
       /\ compiler.log[l].resolved = [kind |-> "local", name |-> "a", index |-> 1]

\* C22: end_scope removes from the end of the locals list exactly the locals
\* declared in the scope being left and appends to the code one instruction
\* for each of them, the last declared first: CloseUpvalue for a captured
\* local, Pop for any other.  For a scope with no local, the code, the locals
\* and the upvalues are left as they were.
C22_EndScope ==
  \A k \in 1..Len(compiler.log) :
    LET e == compiler.log[k]
        len == Len(e.locals)
        declared == {i \in 1..len : e.locals[i].depth = e.scope_depth}
        n == Cardinality(declared)
    IN e.op = "end_scope" =>
         /\ declared = (len - n + 1)..len
         /\ e.after = SubSeq(e.locals, 1, len - n)
         /\ e.emitted = e.code \o [j \in 1..n |->
                                    IF e.locals[len + 1 - j].is_captured
                                    THEN "CloseUpvalue" ELSE "Pop"]
         /\ e.upvalues

\* Compiling { var a = 1; var b = 2; fun f() { print a; } { } }, the empty
\* block was left with nothing emitted and the outer block with Pop for f,
\* Pop for b and CloseUpvalue for a, which f captured.
C22_Witness ==
  /\ prog = "capture" /\ compiler.err = ""
  /\ \E k, l \in 1..Len(compiler.log) :
       /\ k < l
       /\ compiler.log[k].op = "end_scope"
       /\ compiler.log[k].scope_depth = 2
       /\ compiler.log[k].emitted = compiler.log[k].code
       /\ compiler.log[k].after = compiler.log[k].locals
       /\ compiler.log[l].op = "end_scope"
       /\ compiler.log[l].scope_depth = 1
       /\ Len(compiler.log[l].locals) = 4
       /\ compiler.log[l].after = <<Local("", 0)>>
       /\ compiler.log[l].emitted =
            compiler.log[l].code \o <<"Pop", "Pop", "CloseUpvalue">>

C24_PatchJump ==
  [][(status = "body" /\ status' # "body") =>
       LET code == compiler.function.code
           offset == compiler.ret
           distance == Len(code) - (offset + 2)
       IN IF distance <= 65535
          THEN /\ status' = "patched"
               /\ compiler'.err = ""
               /\ compiler'.function.code =
                    [code EXCEPT ![offset + 1] = distance \div 256,
                                 ![offset + 2] = distance % 256]
               /\ compiler'.function.constants = compiler.function.constants
          ELSE /\ status' = "InternalCompilerError"
               /\ compiler'.function = compiler.function]_vars

\* A jump over exactly 65535 bytes has been patched: both operand bytes are
\* 255 and the opcode before them is still the jump.
C24_Witness ==
  /\ prog = "jump" /\ status = "patched"
  /\ LET code == compiler.function.code
         offset == compiler.ret
     IN /\ Len(code) - (offset + 2) = 65535
        /\ code[offset] = "JumpIfFalse"
        /\ code[offset + 1] = 255 /\ code[offset + 2] = 255
        /\ code[Len(code)] = "Pop"

\* C25: on a chunk that started empty, the k-th add_constant (k counted from
\* 0, k < 256) returns k and leaves the value passed at constants[k]; an
\* add_constant on a pool of 256 constants is a compile error that leaves
\* the pool unchanged.
C25_AddConstant ==
  \A i \in 1..Len(compiler.log) :
    LET e == compiler.log[i]
        k == Len(e.constants)
    IN e.op = "add_constant" =>
         IF k < U8_MAX + 1
         THEN /\ e.err = ""
              /\ e.ret = k
              /\ e.after = Append(e.constants, e.value)
         ELSE /\ e.err = "CompileError"
              /\ e.after = e.constants

\* C26: a ( that follows a complete operand is an infix call at precedence 9,
\* so f(a, b) compiles, without an error, to the callee, the two arguments
\* in order and Call 2, whether it stands as a statement, after print, on
\* the right of =, ==, <, +, *, after a unary -, or as the callee of a
\* further call.
C26_Call ==
  prog \in {"call", "printcall", "assigncall", "eqcall", "lesscall", "addcall",
            "mulcall", "negcall", "callcall"} =>
    /\ compiler.err = ""
    /\ status \in {"compile", "compiled"}
    /\ status = "compiled" =>
         LET code == compiler.function.code
         IN \E i \in 1..(Len(code) - 7) :
              /\ \A j \in {0, 2, 4} : ToString(code[i + j]) = ToString("GetGlobal")
              /\ ToString(code[i + 6]) = ToString("Call")
              /\ ToString(code[i + 7]) = ToString(2)

\* C27: this outside any class, super outside any class, super in a class
\* with no superclass, return at top level, return <expr> in a method named
\* init, and a class naming itself as its superclass each end the compile
\* with the CompileError of that case; none of these sources is ever
\* compiled, and until the error is returned there is source left to read.
C27_CompileErrors ==
  LET expected ==
        [thistop |-> "CompileError: this used outside class",
         thisfun |-> "CompileError: this used outside class",
         thisafter |-> "CompileError: this used outside class",
         supertop |-> "CompileError: super used outside class",
         superafter |-> "CompileError: super used outside class",
         superbase |-> "CompileError: super used in class that is not a subclass",
         returntop |-> "CompileError: invalid return",
         returnvalue |-> "CompileError: invalid return",
         initvalue |-> "CompileError: cannot return value from init",
         selfinherit |-> "CompileError: class cannot inherit from itself"]
  IN prog \in DOMAIN expected =>
       /\ status \in {"compile", expected[prog]}
       /\ status = "compile" => compiler.scanner # <<>> /\ compiler.err = ""
       /\ status # "compile" => compiler.err = status

\* The compile of class A { init() { return 1; } } has stopped at the return:
\* the function being compiled is the initializer, inside class A.
C27_Witness ==
  /\ prog = "initvalue"
  /\ status = "CompileError: cannot return value from init"
  /\ compiler.fun_type = "Initializer"
  /\ compiler.classes = <<[has_superclass |-> FALSE]>>

\* C28: after insert(v) returned handle h, contains(h) holds and get(h) gives
\* v; what is pushed through get_mut(h) is what a later get(h) gives; and
\* remove(h) of a handle that is in the heap completes without tripping its
\* assertion, after which contains(h) is false and get(h) is None.
C28_Heap ==
  /\ status.op = "insert" =>
       /\ Heap_contains(heap, status.handle)
       /\ Heap_get(heap, status.handle) = Some(status.value)
       /\ Heap_get_mut(heap, status.handle) = Some(status.value)
  /\ (status.op = "get_mut" /\ status.handle \in DOMAIN status.before) =>
       /\ status.ret = Some(status.before[status.handle])
       /\ Heap_get(heap, status.handle) =
            Some(Append(status.before[status.handle], status.value))
  /\ (status.op = "remove" /\ status.handle \in DOMAIN status.before) =>
       /\ ~status.panic
       /\ ~Heap_contains(heap, status.handle)
       /\ Heap_get(heap, status.handle) = None

\* C29: every collection cycle ends its mark phase: no object is pushed on
\* the gray worklist more than once in the cycle, none that was on the
\* worklist already is pushed again, and when tracing ends it has ended
\* without an error and the worklist is empty.
C29_MarkPhase ==
  \A i \in 1..Len(gc) :
    LET cycle == gc[i] IN
      /\ \A j, k \in 1..Len(cycle.pushed) :
           cycle.pushed[j] = cycle.pushed[k] => j = k
      /\ \A j \in 1..Len(cycle.pushed), k \in 1..Len(cycle.gray) :
           cycle.pushed[j] # cycle.gray[k]
      /\ cycle.why = ""
      /\ cycle.left = <<>>

\* C30: a collection cycle that traces a closed upvalue whose value is Nil, a
\* Bool or a Number marks nothing further for it and completes: the cycle is
\* done without an error and the interpreter has not aborted.
C30_ClosedUpvalue ==
  \A i \in 1..Len(gc) :
    LET cycle == gc[i]
        traced == {h \in RangeOf(cycle.pushed) \cap DOMAIN heap :
                     /\ heap[h].kind = "Upvalue"
                     /\ heap[h].value.t \in {"Nil", "Bool", "Number"}}
    IN traced # {} => cycle.done /\ cycle.why = "" /\ status # "panic"

C32_JumpsLand ==
  [][(status = "run" /\ status' = "run"
        /\ Opcode \in {"Jump", "JumpIfFalse", "Loop"})
     => LET ip == current_frame(VM).ip
            meant == {j \in RangeOf(compiler.jumps) :
                        j.nest = 0 /\ j.offset = ip + 1}
        IN /\ meant # {}
           /\ Len(frames') = Len(frames)
           /\ stack' = stack /\ sp' = sp
           /\ \A j \in meant :
                Top(frames').ip =
                  IF Opcode = "JumpIfFalse" /\ ~is_falsey(stack[sp - 1])
                  THEN ip + 3 ELSE j.target]_vars
\* The loop of the script loop has run its body and Loop has brought the
\* machine back to the loop start.
C32_Witness ==
  /\ prog = "loop" /\ status = "run"
  /\ "x" \in DOMAIN globals /\ globals["x"] = Bool(FALSE)
  /\ \E j \in RangeOf(compiler.jumps) :
       /\ j.nest = 0 /\ compiler.function.code[j.offset] = "Loop"
       /\ current_frame(VM).ip = j.target

\* The script and the functions of the closures in the compiler's heap, each
\* with its chunk and the number of its upvalues.
Chunks(c) ==
  {[code |-> c.function.code, constants |-> c.function.constants,
    upvalue_count |-> 0]} \cup
  {[code |-> c.heap[h].function.code, constants |-> c.heap[h].function.constants,
    upvalue_count |-> c.heap[h].upvalue_count] :
     h \in {i \in 1..Len(c.heap) : c.heap[i].kind = "Closure"}}
\* Where a chunk has a Closure instruction; x is a byte that is not an opcode.
ClosureSites(code) ==
  {i \in 1..Len(code) : ToString(code[i]) = ToString("Closure")}
IsOperand(x) == ToString(x) \in {ToString(n) : n \in 0..U8_MAX}

\* C33: after every Closure instruction the compiler has written come as
\* many (is_local, index) pairs as the closure template's upvalue_count, and
\* then the next opcode; the index of a pair that is local is below the
\* number of locals of the function around it, the index of one that is not
\* is below that function's number of upvalues.
C33_Descriptors ==
  status \in {"compile", "compiled"} =>
    /\ \A f \in Chunks(compiler) : \A i \in ClosureSites(f.code) :
         LET n == compiler.heap[f.constants[f.code[i + 1] + 1].h].upvalue_count
         IN /\ i + 1 + 2 * n <= Len(f.code)
            /\ \A k \in 1..n :
                 /\ IsOperand(f.code[i + 2 * k]) /\ f.code[i + 2 * k] \in {0, 1}
                 /\ IsOperand(f.code[i + 2 * k + 1])
                 /\ f.code[i + 2 * k] = 0 => f.code[i + 2 * k + 1] < f.upvalue_count
            /\ i + 2 + 2 * n <= Len(f.code) => ~IsOperand(f.code[i + 2 + 2 * n])
    /\ \A i \in 1..Len(compiler.log) :
         LET e == compiler.log[i]
         IN e.op = "function" =>
              /\ Len(e.upvalues) = e.upvalue_count
              /\ \A k \in 1..Len(e.upvalues) :
                   e.upvalues[k].is_local => e.upvalues[k].index < e.locals

\* Where the script's code has the opcode op, 0 when it has not.
Where(op) ==
  LET code == compiler.function.code
      at == {i \in 1..Len(code) : ToString(code[i]) = ToString(op)}
  IN IF at = {} THEN 0 ELSE CHOOSE i \in at : \A k \in at : i <= k

\* C34: the operand of a unary minus is parsed at Unary precedence and the
\* right operand of a binary operator one level above the operator: the code
\* of -a + b; has Negate right after the load of a and before Add, and the
\* code of 1 + 2 * 3; has Multiply before Add.
C34_Precedence ==
  status = "compiled" =>
    /\ prog = "negadd" =>
         /\ Where("Negate") = 3 /\ Where("Add") = 6
         /\ compiler.function.code[1] = "GetGlobal"
    /\ prog = "addmul" => 0 < Where("Multiply") /\ Where("Multiply") < Where("Add")

\* C35: the sources a + b = c; and -a = 1; are refused with a compile error
\* value: the compiler does not panic, does not accept them, and writes no
\* SetLocal, SetGlobal, SetUpvalue or SetProperty.
C35_NotAssignable ==
  prog \in {"addassign", "negassign"} =>
    /\ status \notin {"panic", "compiled"}
    /\ \A op \in {"SetLocal", "SetGlobal", "SetUpvalue", "SetProperty"} : Where(op) = 0

\* C36: the closures made by two executions of one function declaration are
\* two closures, each over the bindings of its own execution: in the program
\* closures, f and g (the b of outer(1) and the b of outer(2)) are different
\* objects, and what is printed is 8, 8 for the first call of outer and for f
\* and 9, 9 for the second and for g.
C36_Independent ==
  prog = "closures" =>
    /\ {"f", "g"} \subseteq DOMAIN globals => globals["f"] # globals["g"]
    /\ LET expected == <<Line("Number", 8, ""), Line("Number", 8, ""),
                         Line("Number", 9, ""), Line("Number", 9, "")>>
       IN Len(output) <= 4 /\ output = SubSeq(expected, 1, Len(output))

C38_NoEmptySlot ==
  /\ status = "run" => \A i \in 0..(sp - 1) : i \in DOMAIN stack
  /\ \A c \in 1..Len(gc) :
       \A i \in 0..(gc[c].was.sp - 1) : i \in DOMAIN gc[c].was.stack
\* A collection has run to its end on a stack of three slots or more, the
\* top one an object, and the machine runs on.
C38_Witness ==
  /\ status = "run" /\ sp >= 3
  /\ \E c \in 1..Len(gc) :
       /\ gc[c].done /\ gc[c].was.sp >= 3
       /\ IsObj(gc[c].was.stack[gc[c].was.sp - 1])

\* The objects no allocation of the machine made: those the compiler put in
\* the heap and the script's closure, which interpret inserts.
Uncounted == CompiledAddrs \cup {frames[i].closure : i \in {1} \cap DOMAIN frames}

\* The live objects an allocation of the machine has counted: alloc calls
\* update_bytes_allocated only when the build does not collect at every
\* allocation.
Counted ==
  IF DEV_GC_TESTING /\ debug_assertions THEN {} ELSE DOMAIN heap \ Uncounted

\* C39: bytes_allocated never goes below zero; every object a completed
\* sweep has freed was made by an allocation of the machine (never by the
\* compiler or by interpret) and that allocation had counted it; and in
\* every state bytes_allocated is the size of an object times the number of
\* counted objects still in the heap.
C39_Counted ==
  /\ bytes_allocated >= 0
  /\ \A c \in 1..Len(gc) :
       gc[c].done =>
         /\ (gc[c].pre \ gc[c].post) \cap Uncounted = {}
         /\ gc[c].pre # gc[c].post => ~(DEV_GC_TESTING /\ debug_assertions)
  /\ bytes_allocated = lox_obj_size * Cardinality(Counted)
====
